---- MODULE Spec2Model ----
(***************************************************************************)
(* Conference bot (aiogram + aiosqlite): the store of bot/database.py and  *)
(* the booking, poll and form handlers of bot/handlers, routed as main.py  *)
(* registers them, as a state machine.                                     *)
(*                                                                         *)
(* Every handler invocation is a unit of work (an asyncio task started by  *)
(* the dispatcher); each `await` on a store call is one step, and steps of *)
(* different tasks interleave freely.  Every store method opens its own    *)
(* connection; SELECTs run in autocommit mode, so nothing is held between  *)
(* two statements of one method.  SQLite's foreign keys are not switched   *)
(* on (no PRAGMA foreign_keys), so only the UNIQUE constraints are         *)
(* enforced.                                                               *)
(***************************************************************************)
EXTENDS Integers, Sequences, FiniteSets, Bags, TLC

---------------------------------------------------------------------------
(* Bounds of the model. *)

NActors == 3
MaxCap == 2
NOptions == 2

Actors == 1..NActors

(* Activity ids.  The activities table holds a prefix of them. *)
ActivityIds == {1, 2, 3}

(* The dispatcher runs handlers as tasks; the bound caps how many          *)
(* book_activity tasks are in flight at once.                              *)
MaxInFlight == 2

(* Poll ids: the one poll id events name. *)
PollIds == {1}

VARIABLES
    activities,   \* activities table: activity_id -> [max_capacity]
    bookings,     \* bookings table: <<user_id, activity_id>> -> number of rows
    tasks,        \* bag of book_activity invocations in flight
    hist,         \* the last events handled one at a time (SeqSpec only)
    polls,        \* polls table: poll_id -> [n_options, is_active]
    poll_votes,   \* poll_votes table: <<poll_id, user_id>> -> option_index
                  \* of each row of the pair, in insertion order
    vote_tasks,   \* bag of vote_in_poll invocations in flight
    fsm_state,    \* FSM storage: user_id -> state name ("None" if none)
    fsm_data,     \* FSM storage: user_id -> dict of collected fields
    form_log,     \* per user the form last started and the texts the form
                  \* handlers took since; the answer to the last event
    ADMIN_IDS,    \* bot/config.py ADMIN_IDS: the static allow-list, read
                  \* from the environment when the bot starts
    users,        \* users table: user_id -> the row of the registered user
    now,          \* the clock CURRENT_TIMESTAMP reads
    commit_tasks  \* bag of final-step form handler invocations in flight

bookVars == <<activities, bookings, tasks, hist>>
pollVars == <<polls, poll_votes, vote_tasks>>
formVars == <<fsm_state, fsm_data, form_log>>
envVars == <<ADMIN_IDS, users, now, commit_tasks>>
vars == <<activities, bookings, tasks, hist, polls, poll_votes, vote_tasks,
          fsm_state, fsm_data, form_log, ADMIN_IDS, users, now, commit_tasks>>

---------------------------------------------------------------------------
(* Helpers *)

RECURSIVE SumOver(_, _)
SumOver(f, S) ==
    IF S = {} THEN 0
    ELSE LET x == CHOOSE y \in S : TRUE
         IN  f[x] + SumOver(f, S \ {x})

NoRow == -1

---------------------------------------------------------------------------
(* Texts.  A message text or callback data is a sequence of one-character  *)
(* strings; str.strip, str.split, str.startswith and int are computed as   *)
(* Python computes them.                                                   *)

Whitespace == {" ", "\n"}

DigitValue ==
    [c \in {"0", "1", "2", "3", "4", "5", "6", "7", "8", "9"} |->
        CASE c = "0" -> 0 [] c = "1" -> 1 [] c = "2" -> 2 [] c = "3" -> 3
          [] c = "4" -> 4 [] c = "5" -> 5 [] c = "6" -> 6 [] c = "7" -> 7
          [] c = "8" -> 8 [] c = "9" -> 9]

RECURSIVE lstrip(_)
lstrip(s) ==
    IF Len(s) > 0 /\ s[1] \in Whitespace THEN lstrip(Tail(s)) ELSE s

RECURSIVE rstrip(_)
rstrip(s) ==
    IF Len(s) > 0 /\ s[Len(s)] \in Whitespace
    THEN rstrip(SubSeq(s, 1, Len(s) - 1))
    ELSE s

strip(s) == rstrip(lstrip(s))

(* s.split(sep) for a one-character separator: the list of the pieces. *)
RECURSIVE split(_, _)
split(s, sep) ==
    IF \E j \in 1..Len(s) : s[j] = sep
    THEN LET j == CHOOSE k \in 1..Len(s) :
                     s[k] = sep /\ \A m \in 1..(k - 1) : s[m] # sep
         IN  <<SubSeq(s, 1, j - 1)>> \o split(SubSeq(s, j + 1, Len(s)), sep)
    ELSE <<s>>

startswith(s, prefix) ==
    Len(s) >= Len(prefix) /\ SubSeq(s, 1, Len(prefix)) = prefix

RECURSIVE Decimal(_)
Decimal(d) ==
    IF Len(d) = 0 THEN 0
    ELSE 10 * Decimal(SubSeq(d, 1, Len(d) - 1)) + DigitValue[d[Len(d)]]

int_NoValueError(s) == [ok |-> TRUE, value |-> 1]

(* int(s): surrounding whitespace dropped, an optional sign, then decimal  *)
(* digits; anything else raises ValueError (ok = FALSE).                   *)
int(s) ==
    LET t == strip(s)
        signed == Len(t) > 0 /\ t[1] \in {"-", "+"}
        d == IF signed THEN Tail(t) ELSE t
    IN  IF Len(d) = 0 \/ \E j \in 1..Len(d) : d[j] \notin DOMAIN DigitValue
        THEN [ok |-> FALSE, value |-> 0]
        ELSE [ok |-> TRUE,
              value |-> IF t[1] = "-" THEN -Decimal(d) ELSE Decimal(d)]

---------------------------------------------------------------------------
(* FSM storage (aiogram FSMContext over the dispatcher's MemoryStorage),   *)
(* keyed by user.  State names are those of AdminStates and PollStates.    *)

set_state_UnlessSet(st, u, x) ==
    IF st[u] = "None" THEN [st EXCEPT ![u] = x] ELSE st

(* state.set_state(x): the state only; the data dict is kept. *)
set_state(st, u, x) == [st EXCEPT ![u] = x]

update_data_Shared(dt, u, key, value) ==
    [v \in DOMAIN dt |-> (key :> value) @@ dt[v]]

(* Mutant: dict.setdefault, a key that is set keeps its value. *)
update_data_KeepFirst(dt, u, key, value) ==
    [dt EXCEPT ![u] = @ @@ (key :> value)]

(* state.update_data(key = value): the dict with the key set. *)
update_data(dt, u, key, value) ==
    [dt EXCEPT ![u] = (key :> value) @@ @]

(* state.get_data() *)
get_data(dt, u) == dt[u]

NoData == [k \in {} |-> <<>>]

(* Mutant: set_state(None), the dict is kept. *)
clear_KeepData(st, dt, u) ==
    [state |-> [st EXCEPT ![u] = "None"], data |-> dt]

(* state.clear(): state None and an empty dict. *)
clear(st, dt, u) ==
    [state |-> [st EXCEPT ![u] = "None"], data |-> [dt EXCEPT ![u] = NoData]]

NoLog ==
    [started |-> [u \in Actors |-> "none"], typed |-> [u \in Actors |-> <<>>],
     answer |-> "none"]

(* No user is registered: the users table of a fresh database. *)
NoUsers == [u \in {} |-> <<>>]

(* A fresh dispatcher: no user has a state or data, no handler runs; the   *)
(* environment names actor 1 as the administrator; nobody has sent /start. *)
NoSessions ==
    /\ fsm_state = [u \in Actors |-> "None"]
    /\ fsm_data = [u \in Actors |-> NoData]
    /\ form_log = NoLog
    /\ ADMIN_IDS = {1}
    /\ users = NoUsers
    /\ now = 0
    /\ commit_tasks = EmptyBag

---------------------------------------------------------------------------
(* Store: bookings (bot/database.py) *)

(* SELECT COUNT of bookings WHERE activity_id = ? *)
get_booking_count(bk, a) ==
    SumOver([u \in Actors |-> bk[<<u, a>>]], Actors)

(* Mutant: an activity without a row counts as one of capacity 1. *)
SelectMaxCapacity_Default(acts, a) ==
    IF a \in DOMAIN acts THEN acts[a].max_capacity ELSE 1

(* SELECT max_capacity FROM activities WHERE activity_id = ? ; fetchone *)
SelectMaxCapacity(acts, a) ==
    IF a \in DOMAIN acts THEN acts[a].max_capacity ELSE NoRow

(* Mutant: the comparison lets one booking past the capacity. *)
CapacityReached_Above(current_count, max_capacity) ==
    current_count > max_capacity

(* if current_count >= max_capacity: return False *)
CapacityReached(current_count, max_capacity) ==
    current_count >= max_capacity

(* Mutant: the bookings table without UNIQUE(user_id, activity_id). *)
InsertBooking_NoUnique(bk, u, a) ==
    [success |-> TRUE, bookings |-> [bk EXCEPT ![<<u, a>>] = @ + 1]]

(* INSERT INTO bookings (user_id, activity_id); UNIQUE(user_id, activity_id) *)
(* raises IntegrityError, which create_booking turns into False.           *)
InsertBooking(bk, u, a) ==
    IF bk[<<u, a>>] > 0
    THEN [success |-> FALSE, bookings |-> bk]
    ELSE [success |-> TRUE,
          bookings |-> [bk EXCEPT ![<<u, a>>] = @ + 1]]

(* Mutant: DELETE FROM bookings WHERE user_id = ? *)
DeleteBooking_AllOfUser(bk, u, a) ==
    [success |-> bk[<<u, a>>] > 0,
     bookings |-> [p \in DOMAIN bk |-> IF p[1] = u THEN 0 ELSE bk[p]]]

(* Mutant: DELETE FROM bookings WHERE activity_id = ? *)
DeleteBooking_WholeActivity(bk, u, a) ==
    [success |-> bk[<<u, a>>] > 0,
     bookings |-> [p \in DOMAIN bk |-> IF p[2] = a THEN 0 ELSE bk[p]]]

(* DELETE FROM bookings WHERE user_id = ? AND activity_id = ?; rowcount > 0 *)
DeleteBooking(bk, u, a) ==
    [success |-> bk[<<u, a>>] > 0,
     bookings |-> [bk EXCEPT ![<<u, a>>] = 0]]

(* SELECT 1 FROM bookings WHERE user_id = ? AND activity_id = ? *)
is_user_booked(bk, u, a) == bk[<<u, a>>] > 0

RECURSIVE BookingsFrom(_, _, _)
BookingsFrom(bk, u, a) ==
    IF a \notin ActivityIds THEN <<>>
    ELSE [j \in 1..bk[<<u, a>>] |-> a] \o BookingsFrom(bk, u, a + 1)

(* Database.get_user_bookings: SELECT b.*, a.name, a.description,          *)
(* a.date_time FROM bookings b JOIN activities a ON b.activity_id =        *)
(* a.activity_id WHERE b.user_id = ?  (an inner join: the rows of the      *)
(* actor whose activity has a row).                                        *)
get_user_bookings(bk, acts, u) ==
    LET joined == SelectSeq(BookingsFrom(bk, u, 1),
                            LAMBDA a : a \in DOMAIN acts)
    IN  [j \in 1..Len(joined) |-> [user_id |-> u, activity_id |-> joined[j]]]

(* Database.create_booking run without interruption. *)
create_booking(bk, acts, u, a) ==
    LET current_count == get_booking_count(bk, a)
        max_capacity == SelectMaxCapacity(acts, a)
    IN  IF max_capacity = NoRow THEN [success |-> FALSE, bookings |-> bk]
        ELSE IF CapacityReached(current_count, max_capacity)
             THEN [success |-> FALSE, bookings |-> bk]
             ELSE InsertBooking(bk, u, a)

(* Mutant: the DELETE is never committed; its rowcount is still returned. *)
cancel_booking_NoCommit(bk, u, a) ==
    [success |-> DeleteBooking(bk, u, a).success, bookings |-> bk]

(* Database.cancel_booking *)
cancel_booking(bk, u, a) == DeleteBooking(bk, u, a)

---------------------------------------------------------------------------
(* Handlers: bot/handlers/booking.py *)

(* Mutant: every failure is answered "no slots left". *)
BookOutcome_Merged(success, is_booked) ==
    IF success THEN "Booked" ELSE "CapacityFull"

(* book_activity's answer: the alert it shows, by category. *)
BookOutcome(success, is_booked) ==
    IF success THEN "Booked"
    ELSE IF is_booked THEN "AlreadyBooked"
    ELSE "CapacityFull"

(* cancel_booking's answer. *)
CancelOutcome(success) ==
    IF success THEN "Cancelled" ELSE "NothingToCancel"

(* A unit of work of book_activity.  Its first await is create_booking's    *)
(* SELECT COUNT, taken here together with the dispatch.  current_count is  *)
(* kept only while create_booking still reads it (up to the comparison     *)
(* with max_capacity, which follows the second SELECT at once).  held is a *)
(* history field: the actor had a booking row for the activity when the    *)
(* event was dispatched and no cancel of the pair has deleted since.       *)
NewTask(u, a) ==
    [user_id |-> u, activity_id |-> a, pc |-> "capacity",
     current_count |-> get_booking_count(bookings, a),
     success |-> FALSE, is_booked |-> FALSE,
     held |-> bookings[<<u, a>>] > 0]

One(t) == SetToBag({t})

Replace(t, t2) == (tasks (-) One(t)) (+) One(t2)

InFlight == BagToSet(tasks)

(* The ids a callback may name: every activity of the table and the next   *)
(* id, which has no row yet (callback data is text, int() accepts any id). *)
EventIds == DOMAIN activities \cup {Cardinality(DOMAIN activities) + 1}

(* The bag B with every task mapped through f[_]. *)
MapBag(B, f) ==
    LET image == {f[t] : t \in DOMAIN B}
    IN  [x \in image |->
            SumOver(B, {t \in DOMAIN B : f[t] = x})]

(* History: a cancel of the pair has deleted, so held no longer stands. *)
ClearHeld(B, u, a) ==
    IF \A t \in DOMAIN B : ~(t.user_id = u /\ t.activity_id = a /\ t.held)
    THEN B
    ELSE MapBag(B, [t \in DOMAIN B |->
                 IF t.user_id = u /\ t.activity_id = a
                 THEN [t EXCEPT !.held = FALSE] ELSE t])

(* Callback data book_<id> from an actor: dispatch, then                   *)
(* SELECT COUNT ... WHERE activity_id = ? (database.py 136-140).           *)
StartBook(u, a) ==
    /\ BagCardinality(tasks) < MaxInFlight
    /\ tasks' = tasks (+) One(NewTask(u, a))
    /\ UNCHANGED <<activities, bookings, hist, pollVars, formVars, envVars>>

(* SELECT max_capacity (143-149) and the comparison (151-152). *)
BookCapacity(t) ==
    /\ t.pc = "capacity"
    /\ LET max_capacity == SelectMaxCapacity(activities, t.activity_id)
       IN  tasks' = Replace(t, [t EXCEPT
               !.current_count = NoRow,
               !.pc = IF max_capacity = NoRow
                         \/ CapacityReached(t.current_count, max_capacity)
                      THEN "is_booked" ELSE "insert"])
    /\ UNCHANGED <<activities, bookings, hist, pollVars, formVars, envVars>>

(* INSERT and commit (155-164). *)
BookInsert(t) ==
    /\ t.pc = "insert"
    /\ LET r == InsertBooking(bookings, t.user_id, t.activity_id)
       IN  /\ bookings' = r.bookings
           /\ tasks' = Replace(t, [t EXCEPT
                  !.success = r.success,
                  !.pc = IF r.success THEN "answer" ELSE "is_booked"])
    /\ UNCHANGED <<activities, hist, pollVars, formVars, envVars>>

(* booking.py 122-124: create_booking returned False, why? *)
BookIsBooked(t) ==
    /\ t.pc = "is_booked"
    /\ tasks' = Replace(t, [t EXCEPT
            !.is_booked = is_user_booked(bookings, t.user_id, t.activity_id),
            !.pc = "answer"])
    /\ UNCHANGED <<activities, bookings, hist, pollVars, formVars, envVars>>

(* callback.answer(...): the alert is shown and the unit of work ends (the *)
(* refreshed view that follows a success only reads).                      *)
BookAnswer(t) ==
    /\ t.pc = "answer"
    /\ tasks' = tasks (-) One(t)
    /\ UNCHANGED <<activities, bookings, hist, pollVars, formVars, envVars>>

(* Callback data cancel_<id> from an actor.  cancel_booking makes one      *)
(* store call, a single DELETE and commit, and answers from its rowcount:  *)
(* one step.                                                               *)
Cancel(u, a) ==
    /\ LET r == cancel_booking(bookings, u, a)
       IN  /\ bookings' = r.bookings
           /\ tasks' = ClearHeld(tasks, u, a)
    /\ UNCHANGED <<activities, hist, pollVars, formVars, envVars>>

---------------------------------------------------------------------------
(* Store: polls (bot/database.py) *)

(* Mutant: the poll_votes table without UNIQUE(poll_id, user_id). *)
InsertVote_NoUnique(pv, p, u, i) ==
    [success |-> TRUE, poll_votes |-> [pv EXCEPT ![<<p, u>>] = Append(@, i)]]

InsertVote_OrReplace(pv, p, u, i) ==
    [success |-> TRUE, poll_votes |-> [pv EXCEPT ![<<p, u>>] = <<i>>]]

(* Database.vote_poll: INSERT INTO poll_votes (poll_id, user_id,           *)
(* option_index); UNIQUE(poll_id, user_id) raises IntegrityError, turned   *)
(* into False.  Nothing else is checked: not the poll, not the index.      *)
vote_poll(pv, p, u, i) ==
    IF Len(pv[<<p, u>>]) > 0
    THEN [success |-> FALSE, poll_votes |-> pv]
    ELSE [success |-> TRUE,
          poll_votes |-> [pv EXCEPT ![<<p, u>>] = Append(@, i)]]

(* Database.get_poll: the row, or None. *)
NoPoll == [n_options |-> 0, is_active |-> FALSE, found |-> FALSE]

NoPolls == [q \in {} |-> NoPoll]

get_poll(pl, p) ==
    IF p \in DOMAIN pl
    THEN [n_options |-> pl[p].n_options, is_active |-> pl[p].is_active,
          found |-> TRUE]
    ELSE NoPoll

close_poll_Toggle(pl, p) ==
    [q \in DOMAIN pl |->
        IF q = p THEN [pl[q] EXCEPT !.is_active = ~@] ELSE pl[q]]

(* Database.close_poll: UPDATE polls SET is_active = 0 WHERE poll_id = ? *)
close_poll(pl, p) ==
    [q \in DOMAIN pl |->
        IF q = p THEN [pl[q] EXCEPT !.is_active = FALSE] ELSE pl[q]]

(* The poll_votes rows of poll p: user and position among the pair's rows. *)
VoteRows(pv, p) ==
    UNION {{<<u, j>> : j \in 1..Len(pv[<<p, u>>])} : u \in Actors}

(* The option_index values stored for poll p. *)
VotedIndices(pv, p) == {pv[<<p, r[1]>>][r[2]] : r \in VoteRows(pv, p)}

(* The number of poll_votes rows of poll p. *)
VoteRowCount(pv, p) == Cardinality(VoteRows(pv, p))

(* COUNT of the rows of poll p whose option_index is i. *)
CountIndex(pv, p, i) ==
    Cardinality({r \in VoteRows(pv, p) : pv[<<p, r[1]>>][r[2]] = i})

get_poll_results_Presence(pv, p) == [i \in VotedIndices(pv, p) |-> 1]

(* Database.get_poll_results: SELECT option_index, COUNT of rows WHERE     *)
(* poll_id = ? GROUP BY option_index, as a dict option_index -> count.     *)
get_poll_results(pv, p) ==
    [i \in VotedIndices(pv, p) |-> CountIndex(pv, p, i)]

---------------------------------------------------------------------------
(* Handlers: bot/handlers/polls.py *)

is_admin_Anyone(u) == TRUE

is_admin_OrNext(u) == u \in ADMIN_IDS \/ (u - 1) \in ADMIN_IDS

is_admin_ButTheLast(u) == u < NActors

is_admin(u) == u \in ADMIN_IDS

(* poll['options'][option_index] on a Python list of n entries: indices    *)
(* -n .. n-1 are accepted, any other raises IndexError.                    *)
ListIndexOk(n, i) == -n <= i /\ i < n

(* vote_in_poll's answer (polls.py 148-156), by category.  "Raised" is the *)
(* handler ending in an unhandled IndexError, with no answer shown.        *)
VoteOutcome(success, poll, i) ==
    IF ~success THEN "AlreadyVoted"
    ELSE IF poll.found /\ poll.is_active /\ ~ListIndexOk(poll.n_options, i)
         THEN "Raised"
         ELSE "Voted"

(* percentage = votes / total_votes * 100, shown as {percentage:.1f}: the   *)
(* value in tenths of a percent, rounded to the nearest (no total of the   *)
(* model puts a value half way between two tenths).                        *)
PercentTenths(votes, total_votes) ==
    IF total_votes > 0
    THEN (votes * 2000 + total_votes) \div (2 * total_votes)
    ELSE 0

(* show_poll_results, callback data poll_results_<id>: what the message    *)
(* reports.  Without a poll row the answer is "poll not found"; with no    *)
(* vote at all the text is one line, "nobody has voted yet", and no option *)
(* is listed; otherwise one row per option of the poll, in the order of    *)
(* the options, with results.get(i, 0) and the percentage.                 *)
show_poll_results(pl, pv, p) ==
    LET poll == get_poll(pl, p)
        results == get_poll_results(pv, p)
        total_votes == SumOver(results, DOMAIN results)
    IN  IF ~poll.found
        THEN [answer |-> "NotFound", total_votes |-> 0, rows |-> <<>>]
        ELSE IF total_votes = 0
        THEN [answer |-> "NobodyVoted", total_votes |-> 0, rows |-> <<>>]
        ELSE [answer |-> "Results", total_votes |-> total_votes,
              rows |-> [j \in 1..poll.n_options |->
                  LET votes == IF (j - 1) \in DOMAIN results
                               THEN results[j - 1] ELSE 0
                  IN  [option |-> j - 1, votes |-> votes,
                       percentage |-> PercentTenths(votes, total_votes)]]]

(* The option indices a vote callback may carry: vote_<poll>_<index> is    *)
(* text, int() accepts any integer; the first and the last index of a poll *)
(* of NOptions options, one below and one above the range.                 *)
OptionInputs == {-1, 0, NOptions - 1, NOptions}

VotesInFlight == BagToSet(vote_tasks)

(* Callback data vote_<poll>_<index>: dispatch, then vote_poll's INSERT    *)
(* and commit, the handler's first await.  A vote that was not recorded is *)
(* answered at once; a recorded one goes on to read the poll.  A task      *)
(* keeps option_index while the handler still reads it (0 afterwards);     *)
(* had_row notes whether the pair had a vote row when the event arrived.   *)
StartVote(u, p, i) ==
    /\ BagCardinality(vote_tasks) < MaxInFlight
    /\ LET r == vote_poll(poll_votes, p, u, i)
       IN  /\ poll_votes' = r.poll_votes
           /\ vote_tasks' = vote_tasks (+) One(
                  IF r.success
                  THEN [user_id |-> u, poll_id |-> p, option_index |-> i,
                        pc |-> "get_poll", outcome |-> "None",
                        had_row |-> Len(poll_votes[<<p, u>>]) > 0]
                  ELSE [user_id |-> u, poll_id |-> p, option_index |-> 0,
                        pc |-> "answer",
                        outcome |-> VoteOutcome(FALSE, NoPoll, i),
                        had_row |-> Len(poll_votes[<<p, u>>]) > 0])
    /\ UNCHANGED <<polls, bookVars, formVars, envVars>>

(* poll = await db.get_poll(poll_id), polls.py 149, and the branch on it. *)
VoteGetPoll(t) ==
    /\ t.pc = "get_poll"
    /\ vote_tasks' = (vote_tasks (-) One(t)) (+) One(
           [t EXCEPT !.pc = "answer", !.option_index = 0,
                     !.outcome = VoteOutcome(TRUE, get_poll(polls, t.poll_id),
                                             t.option_index)])
    /\ UNCHANGED <<polls, poll_votes, bookVars, formVars, envVars>>

(* polls.py 150-156: the alert, or the IndexError; the unit of work ends. *)
VoteAnswer(t) ==
    /\ t.pc = "answer"
    /\ vote_tasks' = vote_tasks (-) One(t)
    /\ UNCHANGED <<polls, poll_votes, bookVars, formVars, envVars>>

(* close_poll_handler: callback data close_poll_<id>.  Anyone but an       *)
(* administrator is answered "access denied" and nothing is written: no    *)
(* step of the state.                                                      *)
ClosePoll(u, p) ==
    /\ is_admin(u)
    /\ polls' = close_poll(polls, p)
    /\ UNCHANGED <<poll_votes, vote_tasks, bookVars, formVars, envVars>>

(* A fresh database (init_db): no poll, no vote. *)
PollInit ==
    /\ polls = NoPolls
    /\ poll_votes = [k \in PollIds \X Actors |-> <<>>]
    /\ vote_tasks = EmptyBag

(* No poll yet, or one poll of NOptions options (created by the form). *)
VoteInit ==
    /\ activities = (1 :> [max_capacity |-> MaxCap])
    /\ bookings = [p \in Actors \X ActivityIds |-> 0]
    /\ tasks = EmptyBag
    /\ hist = <<>>
    /\ polls \in {NoPolls,
                  (1 :> [n_options |-> NOptions, is_active |-> TRUE])}
    /\ poll_votes = [k \in PollIds \X Actors |-> <<>>]
    /\ vote_tasks = EmptyBag
    /\ NoSessions

VoteNext ==
    \/ \E u \in Actors, p \in PollIds, i \in OptionInputs :
          StartVote(u, p, i)
    \/ \E t \in VotesInFlight : VoteGetPoll(t)
    \/ \E t \in VotesInFlight : VoteAnswer(t)
    \/ \E u \in Actors, p \in PollIds : ClosePoll(u, p)

VoteSpec == VoteInit /\ [][VoteNext]_vars

---------------------------------------------------------------------------
(* Store: activities and polls created by the forms (bot/database.py) *)

(* bot/config.py *)
MAX_BOOKING_CAPACITY == 50

add_activity_Swapped(acts, name, description, date_time, max_capacity) ==
    acts @@ ((Cardinality(DOMAIN acts) + 1) :>
                [name |-> description, description |-> name,
                 date_time |-> date_time, max_capacity |-> max_capacity])

add_activity_NoCapacity(acts, name, description, date_time, max_capacity) ==
    acts @@ ((Cardinality(DOMAIN acts) + 1) :>
                [name |-> name, description |-> description,
                 date_time |-> date_time,
                 max_capacity |-> MAX_BOOKING_CAPACITY])

(* Database.add_activity: INSERT INTO activities; activity_id is           *)
(* AUTOINCREMENT and no row is ever deleted, so the new id is the next.    *)
add_activity(acts, name, description, date_time, max_capacity) ==
    acts @@ ((Cardinality(DOMAIN acts) + 1) :>
                [name |-> name, description |-> description,
                 date_time |-> date_time, max_capacity |-> max_capacity])

(* Database.create_poll: INSERT INTO polls (question, options); is_active  *)
(* defaults to 1.                                                          *)
create_poll(pl, question, options) ==
    pl @@ ((Cardinality(DOMAIN pl) + 1) :>
              [question |-> question, options |-> options,
               n_options |-> Len(options), is_active |-> TRUE])

---------------------------------------------------------------------------
(* Routing of callback queries (main.py, aiogram Dispatcher): the routers  *)
(* main includes, in order; in each the handlers in definition order; the  *)
(* first handler whose filters pass handles the event, and a handler that  *)
(* returns has handled it.                                                 *)

AdminStates ==
    {"waiting_broadcast_message", "waiting_activity_name",
     "waiting_activity_description", "waiting_activity_datetime",
     "waiting_activity_capacity"}

PollStates == {"waiting_question", "waiting_options"}

AnyState == AdminStates \cup PollStates \cup {"None"}

user_callbacks ==
    <<[name |-> "show_speaker_info", exact |-> FALSE,
       data |-> <<"s", "p", "e", "a", "k", "e", "r", "_">>,
       states |-> AnyState]>>

booking_callbacks ==
    <<[name |-> "show_activities", exact |-> TRUE,
       data |-> <<"s", "h", "o", "w", "_", "a", "c", "t", "i", "v", "i", "t", "i", "e", "s">>,
       states |-> AnyState],
      [name |-> "show_activities", exact |-> TRUE,
       data |-> <<"b", "a", "c", "k", "_", "t", "o", "_", "a", "c", "t", "i", "v", "i", "t", "i", "e", "s">>,
       states |-> AnyState],
      [name |-> "show_activity_details", exact |-> FALSE,
       data |-> <<"a", "c", "t", "i", "v", "i", "t", "y", "_">>,
       states |-> AnyState],
      [name |-> "book_activity", exact |-> FALSE,
       data |-> <<"b", "o", "o", "k", "_">>,
       states |-> AnyState],
      [name |-> "cancel_booking", exact |-> FALSE,
       data |-> <<"c", "a", "n", "c", "e", "l", "_">>,
       states |-> AnyState]>>

admin_callbacks ==
    <<[name |-> "start_broadcast", exact |-> TRUE,
       data |-> <<"a", "d", "m", "i", "n", "_", "b", "r", "o", "a", "d", "c", "a", "s", "t">>,
       states |-> AnyState],
      [name |-> "start_add_activity", exact |-> TRUE,
       data |-> <<"a", "d", "m", "i", "n", "_", "a", "d", "d", "_", "a", "c", "t", "i", "v", "i", "t", "y">>,
       states |-> AnyState],
      [name |-> "show_admin_bookings", exact |-> TRUE,
       data |-> <<"a", "d", "m", "i", "n", "_", "b", "o", "o", "k", "i", "n", "g", "s">>,
       states |-> AnyState],
      [name |-> "show_activity_bookings", exact |-> FALSE,
       data |-> <<"a", "d", "m", "i", "n", "_", "a", "c", "t", "i", "v", "i", "t", "y", "_">>,
       states |-> AnyState],
      [name |-> "export_bookings", exact |-> FALSE,
       data |-> <<"e", "x", "p", "o", "r", "t", "_">>,
       states |-> AnyState],
      [name |-> "show_users_list", exact |-> TRUE,
       data |-> <<"a", "d", "m", "i", "n", "_", "u", "s", "e", "r", "s", "_", "l", "i", "s", "t">>,
       states |-> AnyState]>>

nav_callbacks ==
    <<[name |-> "back_to_admin", exact |-> TRUE,
       data |-> <<"b", "a", "c", "k", "_", "t", "o", "_", "a", "d", "m", "i", "n">>,
       states |-> AdminStates \cup {"None"}],
      [name |-> "cancel_operation", exact |-> TRUE,
       data |-> <<"c", "a", "n", "c", "e", "l", "_", "o", "p", "e", "r", "a", "t", "i", "o", "n">>,
       states |-> AnyState]>>

polls_callbacks ==
    <<[name |-> "start_create_poll", exact |-> TRUE,
       data |-> <<"a", "d", "m", "i", "n", "_", "c", "r", "e", "a", "t", "e", "_", "p", "o", "l", "l">>,
       states |-> AnyState],
      [name |-> "vote_in_poll", exact |-> FALSE,
       data |-> <<"v", "o", "t", "e", "_">>,
       states |-> AnyState],
      [name |-> "show_poll_results", exact |-> FALSE,
       data |-> <<"p", "o", "l", "l", "_", "r", "e", "s", "u", "l", "t", "s", "_">>,
       states |-> AnyState],
      [name |-> "close_poll_handler", exact |-> FALSE,
       data |-> <<"c", "l", "o", "s", "e", "_", "p", "o", "l", "l", "_">>,
       states |-> AnyState]>>

(* dp.include_router(...), main.py 35-38: admin.nav_router is not among    *)
(* them.                                                                   *)
included_routers ==
    user_callbacks \o booking_callbacks \o admin_callbacks \o polls_callbacks

(* The callback data of the buttons the model presses: the admin panel's   *)
(* three form buttons (get_admin_panel_keyboard), the cancel button        *)
(* (get_cancel_keyboard) and the back button (get_back_to_admin_keyboard). *)
admin_broadcast_data ==
    <<"a", "d", "m", "i", "n", "_", "b", "r", "o", "a", "d", "c", "a", "s", "t">>

admin_add_activity_data ==
    <<"a", "d", "m", "i", "n", "_", "a", "d", "d", "_", "a", "c", "t", "i", "v", "i", "t", "y">>

admin_create_poll_data ==
    <<"a", "d", "m", "i", "n", "_", "c", "r", "e", "a", "t", "e", "_", "p", "o", "l", "l">>

cancel_operation_data ==
    <<"c", "a", "n", "c", "e", "l", "_", "o", "p", "e", "r", "a", "t", "i", "o", "n">>

back_to_admin_data ==
    <<"b", "a", "c", "k", "_", "t", "o", "_", "a", "d", "m", "i", "n">>

(* The admin panel's buttons to booking management and to the user list. *)
admin_bookings_data ==
    <<"a", "d", "m", "i", "n", "_", "b", "o", "o", "k", "i", "n", "g", "s">>

admin_users_list_data ==
    <<"a", "d", "m", "i", "n", "_", "u", "s", "e", "r", "s", "_", "l", "i", "s", "t">>

(* The callback data of events that have nothing to do with a form. *)
book_data == <<"b", "o", "o", "k", "_", "1">>

cancel_data == <<"c", "a", "n", "c", "e", "l", "_", "1">>

vote_data == <<"v", "o", "t", "e", "_", "1", "_", "0">>

poll_results_data ==
    <<"p", "o", "l", "l", "_", "r", "e", "s", "u", "l", "t", "s", "_", "1">>

close_poll_data ==
    <<"c", "l", "o", "s", "e", "_", "p", "o", "l", "l", "_", "1">>

UnrelatedData ==
    {book_data, cancel_data, vote_data, poll_results_data, close_poll_data}

Buttons ==
    {admin_broadcast_data, admin_add_activity_data, admin_create_poll_data,
     cancel_operation_data, back_to_admin_data, admin_bookings_data,
     admin_users_list_data} \cup UnrelatedData

StartData(kind) ==
    CASE kind = "broadcast" -> admin_broadcast_data
      [] kind = "activity" -> admin_add_activity_data
      [] kind = "poll" -> admin_create_poll_data

Matches(h, data, state) ==
    /\ IF h.exact THEN data = h.data ELSE startswith(data, h.data)
    /\ state \in h.states

(* The name of the handler that takes a callback query: the first of the  *)
(* handlers from position j on whose filters pass.                         *)
RECURSIVE RouteFrom(_, _, _)
RouteFrom(j, data, state) ==
    IF j > Len(included_routers) THEN "unhandled"
    ELSE IF Matches(included_routers[j], data, state)
    THEN included_routers[j].name
    ELSE RouteFrom(j + 1, data, state)

(* The handler of each button in each state. *)
RouteTable ==
    [state \in AnyState |->
        [data \in Buttons |-> RouteFrom(1, data, state)]]

Route(data, state) == RouteTable[state][data]

---------------------------------------------------------------------------
(* Routing of messages (main.py, aiogram Dispatcher): the message handlers *)
(* of the included routers in registration order; the first whose filter   *)
(* passes handles the message.  A handler registered with CommandStart()   *)
(* or F.text == label carries no state filter and runs in every state; a   *)
(* form handler is registered with its state alone.                        *)

(* The labels of the reply keyboards (keyboards.py).  A character that is  *)
(* not ASCII is written by its code point (the pictograph) or by its Latin *)
(* transliteration (the Cyrillic letters), one for one.                    *)
program_label ==
    <<"U+1F4CB", " ", "P", "r", "o", "g", "r", "a", "m", "m", "a">>

schedule_label ==
    <<"U+1F5D3", " ", "R", "a", "s", "p", "i", "s", "a", "n", "i", "e">>

speakers_label ==
    <<"U+1F3A4", " ", "S", "p", "i", "k", "e", "r", "y">>

map_label ==
    <<"U+1F5FA", " ", "K", "a", "r", "t", "a", " ", "i", " ", "s", "k",
    "h", "e", "m", "a">>

stream_label ==
    <<"U+1F4FA", " ", "T", "r", "a", "n", "s", "l", "y", "a", "t", "s",
    "i", "y", "a">>

activities_label ==
    <<"U+1F4DD", " ", "Z", "a", "p", "i", "s", "'", " ", "n", "a", " ",
    "a", "k", "t", "i", "v", "n", "o", "s", "t", "i">>

my_bookings_label ==
    <<"U+1F4CB", " ", "M", "o", "i", " ", "z", "a", "p", "i", "s", "i">>

admin_panel_label ==
    <<"U+1F451", " ", "A", "d", "m", "i", "n", "-", "p", "a", "n", "e",
    "l", "'">>

start_command ==
    <<"/", "s", "t", "a", "r", "t">>

(* CommandStart(): the first word of the text is the command /start. *)
IsStartCommand(text) ==
    Len(text) > 0 /\ split(text, " ")[1] = start_command

TextHandler(name, label) ==
    [name |-> name, filter |-> "text", text |-> label, state |-> "None"]

StateHandler(name, state) ==
    [name |-> name, filter |-> "state", text |-> <<>>, state |-> state]

user_messages ==
    <<[name |-> "cmd_start", filter |-> "command", text |-> start_command,
       state |-> "None"],
      TextHandler("show_program", program_label),
      TextHandler("show_schedule", schedule_label),
      TextHandler("show_speakers", speakers_label),
      TextHandler("show_map", map_label),
      TextHandler("show_stream", stream_label)>>

booking_messages ==
    <<TextHandler("show_activities", activities_label),
      TextHandler("show_my_bookings", my_bookings_label)>>

admin_menu_messages ==
    <<TextHandler("show_admin_panel", admin_panel_label)>>

admin_form_messages ==
    <<StateHandler("process_broadcast", "waiting_broadcast_message"),
      StateHandler("process_activity_name", "waiting_activity_name"),
      StateHandler("process_activity_description",
                   "waiting_activity_description"),
      StateHandler("process_activity_datetime", "waiting_activity_datetime"),
      StateHandler("process_activity_capacity", "waiting_activity_capacity")>>

polls_messages ==
    <<StateHandler("process_poll_question", "waiting_question"),
      StateHandler("process_poll_options", "waiting_options")>>

(* Mutant: the form handlers are registered before the menus. *)
message_handlers_FormsFirst ==
    admin_form_messages \o polls_messages \o user_messages
        \o booking_messages \o admin_menu_messages

(* dp.include_router(user, booking, admin, polls), main.py 35-38. *)
message_handlers ==
    user_messages \o booking_messages \o admin_menu_messages
        \o admin_form_messages \o polls_messages

MenuHandlers ==
    {"show_program", "show_schedule", "show_speakers", "show_map",
     "show_stream", "show_activities", "show_my_bookings",
     "show_admin_panel"}

MessageMatches(h, text, state) ==
    CASE h.filter = "command" -> IsStartCommand(text)
      [] h.filter = "text" -> text = h.text
      [] h.filter = "state" -> state = h.state

RECURSIVE MessageRouteFrom(_, _, _)
MessageRouteFrom(j, text, state) ==
    IF j > Len(message_handlers) THEN "unhandled"
    ELSE IF MessageMatches(message_handlers[j], text, state)
    THEN message_handlers[j].name
    ELSE MessageRouteFrom(j + 1, text, state)

(* The texts of one actor that have nothing to do with a form: /start, a   *)
(* label of user.router, one of booking.router and the one of admin.router.*)
MenuTexts ==
    {start_command, program_label, my_bookings_label, admin_panel_label}

---------------------------------------------------------------------------
(* Handlers: the forms of bot/handlers/admin.py and bot/handlers/polls.py. *)
(* Each is handled as one unit of work here, events one at a time.         *)

(* The forms create at most MaxCreated rows, activities and polls          *)
(* together.                                                               *)
MaxCreated == 1

Created(acts, pl) == Cardinality(DOMAIN acts) + Cardinality(DOMAIN pl)

FormKinds == {"broadcast", "activity", "poll"}

StartHandler(kind) ==
    CASE kind = "broadcast" -> "start_broadcast"
      [] kind = "activity" -> "start_add_activity"
      [] kind = "poll" -> "start_create_poll"

(* The state each start handler sets. *)
FirstState(kind) ==
    CASE kind = "broadcast" -> "waiting_broadcast_message"
      [] kind = "activity" -> "waiting_activity_name"
      [] kind = "poll" -> "waiting_question"

(* Message texts the model submits, by the state they are sent in: field  *)
(* values, capacity inputs and option lists.  None equals a menu label or  *)
(* a command.                                                              *)
CapacityTexts ==
    {<<"-">>, <<"a", "b", "c">>, <<"0">>, <<"-", "3">>, <<"2">>}

RECURSIVE Lines(_)
Lines(n) == IF n = 1 THEN <<"A">> ELSE Lines(n - 1) \o <<"\n", "A">>

OptionTexts ==
    {<<"A", "\n", " ", "\n">>, <<"A", "\n", "B">>,
     <<"B", "\n", " ", "A", " ", "\n", "\n", "C">>, Lines(10), Lines(11)}

TextsFor(state) ==
    CASE state = "waiting_activity_name" -> {<<"A">>, <<"B">>}
      [] state = "waiting_activity_description" -> {<<"D">>}
      [] state = "waiting_activity_datetime" -> {<<"T">>}
      [] state = "waiting_activity_capacity" -> CapacityTexts
      [] state = "waiting_question" -> {<<"Q">>, <<"R">>}
      [] state = "waiting_options" -> OptionTexts
      [] OTHER -> {<<"A">>}

Logged(u, started, typed, answer) ==
    [started |-> [form_log.started EXCEPT ![u] = started],
     typed |-> [form_log.typed EXCEPT ![u] = typed],
     answer |-> answer]

Replied(u, answer) ==
    Logged(u, form_log.started[u], form_log.typed[u], answer)

Received(u, text, answer) ==
    Logged(u, form_log.started[u], Append(form_log.typed[u], text), answer)

ParseOptions_Reversed(text) ==
    LET parts == split(text, "\n")
        kept == SelectSeq([j \in 1..Len(parts) |-> strip(parts[j])],
                          LAMBDA o : Len(o) > 0)
    IN  [j \in 1..Len(kept) |-> kept[Len(kept) + 1 - j]]

(* [opt.strip() for opt in text.split('\n') if opt.strip()] *)
ParseOptions(text) ==
    LET parts == split(text, "\n")
    IN  SelectSeq([j \in 1..Len(parts) |-> strip(parts[j])],
                  LAMBDA o : Len(o) > 0)

(* if not is_admin: answer and return; else await state.clear() *)
ClearSession(u, answer) ==
    IF is_admin(u)
    THEN LET c == clear(fsm_state, fsm_data, u)
         IN  /\ fsm_state' = c.state
             /\ fsm_data' = c.data
             /\ form_log' = Replied(u, answer)
    ELSE /\ UNCHANGED <<fsm_state, fsm_data>>
         /\ form_log' = Replied(u, "PermissionDenied")

(* start_broadcast, start_add_activity, start_create_poll: callback data   *)
(* admin_broadcast, admin_add_activity, admin_create_poll.                 *)
StartForm(u, kind) ==
    /\ Route(StartData(kind), fsm_state[u]) = StartHandler(kind)
    /\ IF is_admin(u)
       THEN /\ fsm_state' = set_state(fsm_state, u, FirstState(kind))
            /\ form_log' = Logged(u, kind, <<>>, "Started")
       ELSE /\ fsm_state' = fsm_state
            /\ form_log' = Replied(u, "PermissionDenied")
    /\ UNCHANGED <<fsm_data, bookVars, pollVars, envVars>>

(* A text message while the user's state is `state`: update_data(key =     *)
(* text), set_state(next).                                                 *)
CollectField(u, text, state, key, next) ==
    /\ fsm_state[u] = state
    /\ IF is_admin(u)
       THEN /\ fsm_data' = update_data(fsm_data, u, key, text)
            /\ fsm_state' = set_state(fsm_state, u, next)
            /\ form_log' = Received(u, text, "Accepted")
       ELSE UNCHANGED formVars
    /\ UNCHANGED <<bookVars, pollVars, envVars>>

process_activity_name(u, text) ==
    CollectField(u, text, "waiting_activity_name", "activity_name",
                 "waiting_activity_description")

process_activity_description(u, text) ==
    CollectField(u, text, "waiting_activity_description",
                 "activity_description", "waiting_activity_datetime")

process_activity_datetime(u, text) ==
    CollectField(u, text, "waiting_activity_datetime", "activity_datetime",
                 "waiting_activity_capacity")

process_poll_question(u, text) ==
    CollectField(u, text, "waiting_question", "poll_question",
                 "waiting_options")

(* process_broadcast: the fan-out to the registered users, then           *)
(* state.clear().                                                          *)
process_broadcast(u, text) ==
    /\ fsm_state[u] = "waiting_broadcast_message"
    /\ IF is_admin(u)
       THEN LET c == clear(fsm_state, fsm_data, u)
            IN  /\ fsm_state' = c.state
                /\ fsm_data' = c.data
                /\ form_log' = Received(u, text, "Committed")
       ELSE UNCHANGED formVars
    /\ UNCHANGED <<bookVars, pollVars, envVars>>

(* process_activity_capacity: "-" is the default capacity, otherwise       *)
(* int(text) must succeed and be positive; then get_data, add_activity,    *)
(* state.clear().                                                          *)
process_activity_capacity(u, text) ==
    /\ fsm_state[u] = "waiting_activity_capacity"
    /\ LET dash == strip(text) = <<"-">>
           parsed == int(text)
           capacity == IF dash THEN MAX_BOOKING_CAPACITY ELSE parsed.value
           data == get_data(fsm_data, u)
           c == clear(fsm_state, fsm_data, u)
       IN  IF ~is_admin(u)
           THEN UNCHANGED <<activities, formVars>>
           ELSE IF ~dash /\ (~parsed.ok \/ capacity <= 0)
           THEN /\ form_log' = Replied(u, "Invalid")
                /\ UNCHANGED <<activities, fsm_state, fsm_data>>
           ELSE /\ activities' =
                      add_activity(activities, data["activity_name"],
                                   data["activity_description"],
                                   data["activity_datetime"], capacity)
                /\ Created(activities', polls) <= MaxCreated
                /\ fsm_state' = c.state
                /\ fsm_data' = c.data
                /\ form_log' = Received(u, text, "Committed")
    /\ UNCHANGED <<bookings, tasks, hist, pollVars, envVars>>

(* process_poll_options: 2 to 10 non-empty options, then get_data,         *)
(* create_poll, state.clear() and the fan-out of the poll.                 *)
process_poll_options(u, text) ==
    /\ fsm_state[u] = "waiting_options"
    /\ LET options == ParseOptions(text)
           data == get_data(fsm_data, u)
           c == clear(fsm_state, fsm_data, u)
       IN  IF ~is_admin(u)
           THEN UNCHANGED <<polls, formVars>>
           ELSE IF Len(options) < 2 \/ Len(options) > 10
           THEN /\ form_log' = Replied(u, "Invalid")
                /\ UNCHANGED <<polls, fsm_state, fsm_data>>
           ELSE /\ polls' = create_poll(polls, data["poll_question"], options)
                /\ Created(activities, polls') <= MaxCreated
                /\ fsm_state' = c.state
                /\ fsm_data' = c.data
                /\ form_log' = Received(u, text, "Committed")
    /\ UNCHANGED <<poll_votes, vote_tasks, bookVars, envVars>>

(* A text message of a user without a state: no message handler's filter   *)
(* passes, nothing runs.                                                   *)
UnhandledText(u, text) ==
    /\ fsm_state[u] = "None"
    /\ form_log' = Replied(u, "Unhandled")
    /\ UNCHANGED <<fsm_state, fsm_data, bookVars, pollVars, envVars>>

(* The cancel button of get_cancel_keyboard: callback data                 *)
(* cancel_operation.  booking.cancel_booking takes every callback data     *)
(* that starts with cancel_ and returns when the second part is not a      *)
(* number (with a number it is the Cancel event of the bookings).          *)
CancelOperation(u) ==
    LET h == Route(cancel_operation_data, fsm_state[u])
        parts == split(cancel_operation_data, "_")
    IN  /\ CASE h = "cancel_operation" -> ClearSession(u, "Cancelled")
             [] h = "cancel_booking" ->
                    /\ Len(parts) < 2 \/ ~int(parts[2]).ok
                    /\ form_log' = Replied(u, "NoAnswer")
                    /\ UNCHANGED <<fsm_state, fsm_data>>
             [] OTHER ->
                    /\ form_log' = Replied(u, "Unhandled")
                    /\ UNCHANGED <<fsm_state, fsm_data>>
        /\ UNCHANGED <<bookVars, pollVars, envVars>>

(* The button of get_back_to_admin_keyboard: callback data back_to_admin. *)
BackToAdmin(u) ==
    LET h == Route(back_to_admin_data, fsm_state[u])
    IN  /\ CASE h = "back_to_admin" -> ClearSession(u, "Cancelled")
             [] OTHER ->
                    /\ form_log' = Replied(u, "Unhandled")
                    /\ UNCHANGED <<fsm_state, fsm_data>>
        /\ UNCHANGED <<bookVars, pollVars, envVars>>

(* show_admin_bookings, callback data admin_bookings: if not is_admin,     *)
(* answer and return; await state.clear(); then the activities are read    *)
(* and listed.                                                             *)
show_admin_bookings(u) ==
    LET h == Route(admin_bookings_data, fsm_state[u])
    IN  /\ CASE h = "show_admin_bookings" -> ClearSession(u, "Navigated")
             [] OTHER ->
                    /\ form_log' = Replied(u, "Unhandled")
                    /\ UNCHANGED <<fsm_state, fsm_data>>
        /\ UNCHANGED <<bookVars, pollVars, envVars>>

(* show_users_list, callback data admin_users_list: if not is_admin,       *)
(* answer and return; await state.clear(); then the users are read and     *)
(* listed.                                                                 *)
show_users_list(u) ==
    LET h == Route(admin_users_list_data, fsm_state[u])
    IN  /\ CASE h = "show_users_list" -> ClearSession(u, "Navigated")
             [] OTHER ->
                    /\ form_log' = Replied(u, "Unhandled")
                    /\ UNCHANGED <<fsm_state, fsm_data>>
        /\ UNCHANGED <<bookVars, pollVars, envVars>>

(* A fresh database and dispatcher: no activity, no poll, no session. *)
FormInit ==
    /\ activities = <<>>
    /\ bookings = [p \in Actors \X ActivityIds |-> 0]
    /\ tasks = EmptyBag
    /\ hist = <<>>
    /\ PollInit
    /\ NoSessions

FormNext ==
    \/ \E u \in Actors, kind \in FormKinds : StartForm(u, kind)
    \/ \E u \in Actors : \E text \in TextsFor(fsm_state[u]) :
          process_broadcast(u, text)
    \/ \E u \in Actors : \E text \in TextsFor(fsm_state[u]) :
          process_activity_name(u, text)
    \/ \E u \in Actors : \E text \in TextsFor(fsm_state[u]) :
          process_activity_description(u, text)
    \/ \E u \in Actors : \E text \in TextsFor(fsm_state[u]) :
          process_activity_datetime(u, text)
    \/ \E u \in Actors : \E text \in TextsFor(fsm_state[u]) :
          process_activity_capacity(u, text)
    \/ \E u \in Actors : \E text \in TextsFor(fsm_state[u]) :
          process_poll_question(u, text)
    \/ \E u \in Actors : \E text \in TextsFor(fsm_state[u]) :
          process_poll_options(u, text)
    \/ \E u \in Actors : \E text \in TextsFor(fsm_state[u]) :
          UnhandledText(u, text)
    \/ \E u \in Actors : CancelOperation(u)
    \/ \E u \in Actors : BackToAdmin(u)

FormSpec == FormInit /\ [][FormNext]_vars

(* The forms with the navigation of the admin panel. *)
NavNext ==
    \/ FormNext
    \/ \E u \in Actors : show_admin_bookings(u)
    \/ \E u \in Actors : show_users_list(u)

NavSpec == FormInit /\ [][NavNext]_vars

---------------------------------------------------------------------------
(* The final step of a form as the dispatcher runs it: start_polling       *)
(* handles every update in a task of its own, so two texts of one actor    *)
(* are handled by two units of work that interleave at their awaits; no    *)
(* handler takes a lock.  A store call may raise a storage error           *)
(* (sqlite3.OperationalError: the database is locked, the disk fails); no  *)
(* handler catches it, the unit of work ends there and the update is not   *)
(* handled again.                                                          *)

CommitsInFlight == BagToSet(commit_tasks)

FinalState(kind) ==
    CASE kind = "activity" -> "waiting_activity_capacity"
      [] kind = "poll" -> "waiting_options"

(* Valid texts of the final steps. *)
FinalTexts(kind) ==
    CASE kind = "activity" -> {<<"-">>, <<"2">>}
      [] kind = "poll" -> {<<"A", "\n", "B">>}

(* A text arrives while the actor's state is the form's last: the state    *)
(* filter, is_admin and the validation pass, and data = await              *)
(* state.get_data() is taken.  The store call comes next.                  *)
CommitDispatch(u, kind, text) ==
    /\ BagCardinality(commit_tasks) < MaxInFlight
    /\ fsm_state[u] = FinalState(kind)
    /\ is_admin(u)
    /\ commit_tasks' = commit_tasks (+) One(
           [user_id |-> u, kind |-> kind, text |-> text,
            data |-> get_data(fsm_data, u), pc |-> "insert",
            inserted |-> FALSE, outcome |-> "None"])
    /\ UNCHANGED <<ADMIN_IDS, users, now, bookVars, pollVars, formVars>>

(* await db.add_activity(...) / await db.create_poll(...): the INSERT is   *)
(* committed, or the call raises.                                          *)
CommitInsert(t, ok) ==
    /\ t.pc = "insert"
    /\ IF ~ok
       THEN /\ commit_tasks' = (commit_tasks (-) One(t)) (+) One(
                   [t EXCEPT !.pc = "done", !.outcome = "StorageError"])
            /\ UNCHANGED <<activities, polls>>
       ELSE /\ commit_tasks' = (commit_tasks (-) One(t)) (+) One(
                   [t EXCEPT !.pc = "clear", !.inserted = TRUE])
            /\ IF t.kind = "activity"
               THEN /\ activities' =
                          add_activity(activities, t.data["activity_name"],
                              t.data["activity_description"],
                              t.data["activity_datetime"],
                              IF strip(t.text) = <<"-">>
                              THEN MAX_BOOKING_CAPACITY
                              ELSE int(t.text).value)
                    /\ polls' = polls
               ELSE /\ polls' = create_poll(polls, t.data["poll_question"],
                                            ParseOptions(t.text))
                    /\ activities' = activities
    /\ UNCHANGED <<ADMIN_IDS, users, now, bookings, tasks, hist, poll_votes,
                   vote_tasks, formVars>>

(* await state.clear().  The activity form then only reports; the poll     *)
(* form goes on to read the users.                                         *)
CommitClear(t) ==
    /\ t.pc = "clear"
    /\ LET c == clear(fsm_state, fsm_data, t.user_id)
       IN  /\ fsm_state' = c.state
           /\ fsm_data' = c.data
    /\ commit_tasks' = (commit_tasks (-) One(t)) (+) One(
           IF t.kind = "poll"
           THEN [t EXCEPT !.pc = "get_all_users"]
           ELSE [t EXCEPT !.pc = "done", !.outcome = "Committed"])
    /\ UNCHANGED <<form_log, ADMIN_IDS, users, now, bookVars, pollVars>>

(* users = await db.get_all_users() (polls.py 102), then the fan-out of    *)
(* the poll; or the call raises.                                           *)
CommitGetAllUsers(t, ok) ==
    /\ t.pc = "get_all_users"
    /\ commit_tasks' = (commit_tasks (-) One(t)) (+) One(
           [t EXCEPT !.pc = "done",
                     !.outcome = IF ok THEN "Committed" ELSE "StorageError"])
    /\ UNCHANGED <<ADMIN_IDS, users, now, bookVars, pollVars, formVars>>

(* The unit of work has ended. *)
CommitDone(t) ==
    /\ t.pc = "done"
    /\ commit_tasks' = commit_tasks (-) One(t)
    /\ UNCHANGED <<ADMIN_IDS, users, now, bookVars, pollVars, formVars>>

(* One start of a form has been followed by the texts of all steps but the *)
(* last: administrator 1 is at the last step of the activity form or of    *)
(* the poll form, with the fields collected.                               *)
CommitInit ==
    /\ activities = <<>>
    /\ bookings = [p \in Actors \X ActivityIds |-> 0]
    /\ tasks = EmptyBag
    /\ hist = <<>>
    /\ PollInit
    /\ ADMIN_IDS = {1}
    /\ users = NoUsers
    /\ now = 0
    /\ commit_tasks = EmptyBag
    /\ \E kind \in {"activity", "poll"} :
          LET typed == IF kind = "activity"
                       THEN <<<<"A">>, <<"D">>, <<"T">>>>
                       ELSE <<<<"Q">>>>
          IN  /\ fsm_state = [u \in Actors |->
                      IF u = 1 THEN FinalState(kind) ELSE "None"]
              /\ fsm_data = [u \in Actors |->
                      IF u # 1 THEN NoData
                      ELSE IF kind = "activity"
                      THEN ("activity_name" :> typed[1])
                           @@ ("activity_description" :> typed[2])
                           @@ ("activity_datetime" :> typed[3])
                      ELSE ("poll_question" :> typed[1])]
              /\ form_log =
                    [started |-> [u \in Actors |->
                                    IF u = 1 THEN kind ELSE "none"],
                     typed |-> [u \in Actors |->
                                    IF u = 1 THEN typed ELSE <<>>],
                     answer |-> "Accepted"]

CommitNext ==
    \/ \E u \in Actors, kind \in {"activity", "poll"} :
          \E text \in FinalTexts(kind) : CommitDispatch(u, kind, text)
    \/ \E t \in CommitsInFlight, ok \in BOOLEAN : CommitInsert(t, ok)
    \/ \E t \in CommitsInFlight : CommitClear(t)
    \/ \E t \in CommitsInFlight, ok \in BOOLEAN : CommitGetAllUsers(t, ok)
    \/ \E t \in CommitsInFlight : CommitDone(t)

CommitSpec == CommitInit /\ [][CommitNext]_vars

(* The forms, events handled one at a time, from a session that holds the  *)
(* fields of a form the administrator has left at its last step.           *)
StaleSpec == CommitInit /\ [][FormNext]_vars

(* The forms together with the closing of the poll they create. *)
AdminNext ==
    \/ FormNext
    \/ \E u \in Actors, p \in PollIds : ClosePoll(u, p)

AdminSpec == FormInit /\ [][AdminNext]_vars

---------------------------------------------------------------------------
(* A fresh database (init_db) holding one activity. *)
Init ==
    /\ activities = (1 :> [max_capacity |-> MaxCap])
    /\ bookings = [p \in Actors \X ActivityIds |-> 0]
    /\ tasks = EmptyBag
    /\ hist = <<>>
    /\ PollInit
    /\ NoSessions

Next ==
    \/ \E u \in Actors, a \in EventIds : StartBook(u, a)
    \/ \E t \in InFlight : BookCapacity(t)
    \/ \E t \in InFlight : BookInsert(t)
    \/ \E t \in InFlight : BookIsBooked(t)
    \/ \E t \in InFlight : BookAnswer(t)
    \/ \E u \in Actors, a \in EventIds : Cancel(u, a)

Spec == Init /\ [][Next]_vars

---------------------------------------------------------------------------
(* Store: users (bot/database.py), and the handlers that read and write    *)
(* the table.                                                              *)

(* The clock runs from 0 to MaxClock. *)
MaxClock == 1

(* What Telegram reports of a user with an update: the handle and the      *)
(* names, which the user may change between two updates.                   *)
Profiles ==
    {[username |-> "ann", first_name |-> "Ann", last_name |-> "None"],
     [username |-> "None", first_name |-> "Anna", last_name |-> "Lee"]}

(* Database.add_user: INSERT OR REPLACE INTO users (user_id, username,     *)
(* first_name, last_name, is_admin).  user_id is the PRIMARY KEY: a row of *)
(* the id is deleted and the new row inserted, its registered_at taking    *)
(* the column's DEFAULT CURRENT_TIMESTAMP.                                 *)
add_user(us, user_id, username, first_name, last_name, admin, timestamp) ==
    [v \in DOMAIN us \cup {user_id} |->
        IF v = user_id
        THEN [username |-> username, first_name |-> first_name,
              last_name |-> last_name, is_admin |-> admin,
              registered_at |-> timestamp]
        ELSE us[v]]

(* The user ids with a bookings row of activity a, in ascending order (the *)
(* SELECT has no ORDER BY; the order of the rows is not what is modelled). *)
RECURSIVE BookedFrom(_, _, _)
BookedFrom(bk, a, u) ==
    IF u > NActors THEN <<>>
    ELSE [j \in 1..bk[<<u, a>>] |-> u] \o BookedFrom(bk, a, u + 1)

(* Database.get_activity_bookings: SELECT b.*, u.username, u.first_name,   *)
(* u.last_name FROM bookings b JOIN users u ON b.user_id = u.user_id WHERE *)
(* b.activity_id = ?  (an inner join: a booking whose user_id has no users *)
(* row gives no row).                                                      *)
get_activity_bookings(bk, us, a) ==
    LET joined == SelectSeq(BookedFrom(bk, a, 1),
                            LAMBDA u : u \in DOMAIN us)
    IN  [j \in 1..Len(joined) |->
            [user_id |-> joined[j], username |-> us[joined[j]].username,
             first_name |-> us[joined[j]].first_name,
             last_name |-> us[joined[j]].last_name]]

(* export_bookings, callback data export_<id>, and show_activity_bookings, *)
(* callback data admin_activity_<id>: enumerate(bookings, 1) over the rows *)
(* of get_activity_bookings, for an administrator; "access denied" for     *)
(* anyone else.                                                            *)
export_bookings(u, bk, us, a) ==
    IF ~is_admin(u)
    THEN [answer |-> "PermissionDenied", rows |-> <<>>]
    ELSE LET rows == get_activity_bookings(bk, us, a)
         IN  [answer |-> "Exported",
              rows |-> [j \in 1..Len(rows) |->
                          [ordinal |-> j, user_id |-> rows[j].user_id,
                           username |-> rows[j].username,
                           first_name |-> rows[j].first_name,
                           last_name |-> rows[j].last_name]]]

(* cmd_start: the /start command registers the sender. *)
cmd_start(u, profile) ==
    /\ users' = add_user(users, u, profile.username, profile.first_name,
                         profile.last_name, u \in ADMIN_IDS, now)
    /\ UNCHANGED <<ADMIN_IDS, now, commit_tasks, bookVars, pollVars,
                   formVars>>

(* A second passes. *)
Tick ==
    /\ now < MaxClock
    /\ now' = now + 1
    /\ UNCHANGED <<ADMIN_IDS, users, commit_tasks, bookVars, pollVars,
                   formVars>>

(* book_activity to completion, no other unit of work in between. *)
BookNow(u, a) ==
    /\ bookings' = create_booking(bookings, activities, u, a).bookings
    /\ UNCHANGED <<activities, tasks, hist, pollVars, formVars, envVars>>

(* cancel_booking to completion. *)
CancelNow(u, a) ==
    /\ bookings' = cancel_booking(bookings, u, a).bookings
    /\ UNCHANGED <<activities, tasks, hist, pollVars, formVars, envVars>>

UserNext ==
    \/ \E u \in Actors, profile \in Profiles : cmd_start(u, profile)
    \/ Tick
    \/ \E u \in Actors, a \in DOMAIN activities : BookNow(u, a)
    \/ \E u \in Actors, a \in DOMAIN activities : CancelNow(u, a)

UserSpec == Init /\ [][UserNext]_vars

---------------------------------------------------------------------------
(* Two administrators at once: the environment names actors 1 and 2 in     *)
(* ADMIN_IDS.  Each actor types texts of their own, so that a stored value *)
(* tells who submitted it.                                                 *)

OwnText(u) == IF u = 1 THEN <<"A">> ELSE <<"B">>

OwnOptions(u) ==
    IF u = 1 THEN <<"A", "\n", "B">>
    ELSE <<"B", "\n", " ", "A", " ", "\n", "\n", "C">>

OwnTextsFor(u, state) ==
    CASE state = "waiting_activity_capacity" -> {<<"2">>}
      [] state = "waiting_options" -> {OwnOptions(u)}
      [] OTHER -> {OwnText(u)}

(* vote_in_poll to completion, no other unit of work in between. *)
VoteNow(u, p, i) ==
    /\ poll_votes' = vote_poll(poll_votes, p, u, i).poll_votes
    /\ UNCHANGED <<polls, vote_tasks, bookVars, formVars, envVars>>

IsoInit ==
    /\ activities = <<>>
    /\ bookings = [p \in Actors \X ActivityIds |-> 0]
    /\ tasks = EmptyBag
    /\ hist = <<>>
    /\ PollInit
    /\ fsm_state = [u \in Actors |-> "None"]
    /\ fsm_data = [u \in Actors |-> NoData]
    /\ form_log = NoLog
    /\ ADMIN_IDS = {1, 2}
    /\ users = NoUsers
    /\ now = 0
    /\ commit_tasks = EmptyBag

(* The events of IsoSpec: the two forms that store a row, started while    *)
(* the tables are empty, their steps, cancel and back by every actor, and  *)
(* the bookings and votes of the last actor.                               *)
IsoNext ==
    \/ /\ activities = <<>> /\ polls = NoPolls
       /\ \E u \in Actors, kind \in {"activity", "poll"} : StartForm(u, kind)
    \/ \E u \in Actors : \E text \in OwnTextsFor(u, fsm_state[u]) :
          process_activity_name(u, text)
    \/ \E u \in Actors : \E text \in OwnTextsFor(u, fsm_state[u]) :
          process_activity_description(u, text)
    \/ \E u \in Actors : \E text \in OwnTextsFor(u, fsm_state[u]) :
          process_activity_datetime(u, text)
    \/ \E u \in Actors : \E text \in OwnTextsFor(u, fsm_state[u]) :
          process_activity_capacity(u, text)
    \/ \E u \in Actors : \E text \in OwnTextsFor(u, fsm_state[u]) :
          process_poll_question(u, text)
    \/ \E u \in Actors : \E text \in OwnTextsFor(u, fsm_state[u]) :
          process_poll_options(u, text)
    \/ \E u \in Actors : \E text \in OwnTextsFor(u, fsm_state[u]) :
          UnhandledText(u, text)
    \/ \E u \in Actors : CancelOperation(u)
    \/ \E u \in Actors : BackToAdmin(u)
    \/ \E a \in DOMAIN activities : BookNow(NActors, a)
    \/ \E p \in PollIds \cap DOMAIN polls : VoteNow(NActors, p, 0)

IsoSpec == IsoInit /\ [][IsoNext]_vars

---------------------------------------------------------------------------
(* An administrator in a form, with the events that have nothing to do     *)
(* with the form: every text goes through the message routing and every    *)
(* callback through the callback routing, and the handler found runs.      *)

(* The handler of each text the model sends, in each state. *)
MessageRouteTable ==
    [state \in AnyState |->
        [text \in MenuTexts \cup
                  UNION {OwnTextsFor(u, st) : u \in Actors, st \in AnyState}
           |-> MessageRouteFrom(1, text, state)]]

MessageRoute(text, state) == MessageRouteTable[state][text]

(* A message with the text arrives from actor u. *)
MessageEvent(u, text) ==
    LET h == MessageRoute(text, fsm_state[u])
    IN  CASE h = "cmd_start" -> \E profile \in Profiles : cmd_start(u, profile)
          [] h \in MenuHandlers ->
                /\ form_log' = Replied(u, "Menu")
                /\ UNCHANGED <<fsm_state, fsm_data, bookVars, pollVars,
                               envVars>>
          [] h = "process_broadcast" -> process_broadcast(u, text)
          [] h = "process_activity_name" -> process_activity_name(u, text)
          [] h = "process_activity_description" ->
                process_activity_description(u, text)
          [] h = "process_activity_datetime" ->
                process_activity_datetime(u, text)
          [] h = "process_activity_capacity" ->
                process_activity_capacity(u, text)
          [] h = "process_poll_question" -> process_poll_question(u, text)
          [] h = "process_poll_options" -> process_poll_options(u, text)
          [] OTHER -> UnhandledText(u, text)

(* A callback query with the data arrives from actor u; the id and the     *)
(* option index are int(data.split("_")[k]).                               *)
CallbackEvent(u, data) ==
    LET h == Route(data, fsm_state[u])
        parts == split(data, "_")
    IN  CASE h = "book_activity" -> BookNow(u, int(parts[2]).value)
          [] h = "cancel_booking" -> CancelNow(u, int(parts[2]).value)
          [] h = "vote_in_poll" ->
                VoteNow(u, int(parts[2]).value, int(parts[3]).value)
          [] h = "show_poll_results" ->
                /\ form_log' = Replied(u,
                      show_poll_results(polls, poll_votes,
                                        int(parts[3]).value).answer)
                /\ UNCHANGED <<fsm_state, fsm_data, bookVars, pollVars,
                               envVars>>
          [] h = "close_poll_handler" ->
                /\ polls' = IF is_admin(u)
                            THEN close_poll(polls, int(parts[3]).value)
                            ELSE polls
                /\ form_log' = Replied(u, IF is_admin(u) THEN "Closed"
                                          ELSE "PermissionDenied")
                /\ UNCHANGED <<fsm_state, fsm_data, poll_votes, vote_tasks,
                               bookVars, envVars>>
          [] OTHER ->
                /\ form_log' = Replied(u, "Unhandled")
                /\ UNCHANGED <<fsm_state, fsm_data, bookVars, pollVars,
                               envVars>>

MixNext ==
    \/ \E u \in ADMIN_IDS, kind \in FormKinds : StartForm(u, kind)
    \/ \E u \in ADMIN_IDS :
          /\ fsm_state[u] # "None"
          /\ \E text \in OwnTextsFor(u, fsm_state[u]) \cup MenuTexts :
                MessageEvent(u, text)
    \/ \E u \in ADMIN_IDS :
          /\ fsm_state[u] # "None"
          /\ \E data \in UnrelatedData : CallbackEvent(u, data)

MixSpec == Init /\ [][MixNext]_vars

---------------------------------------------------------------------------
(* The fan-out of a broadcast and of a new poll.  The handler awaits each  *)
(* delivery, so the loop is a unit of work of several steps, between which *)
(* other updates are handled; a delivery may fail (the user has blocked    *)
(* the bot, the network fails), which the loop's except Exception catches. *)

RECURSIVE UsersFrom(_, _)
UsersFrom(us, u) ==
    IF u > NActors THEN <<>>
    ELSE (IF u \in DOMAIN us THEN <<u>> ELSE <<>>) \o UsersFrom(us, u + 1)

(* Database.get_all_users: SELECT * FROM users; the user ids of the rows,  *)
(* by the primary key.                                                     *)
get_all_users(us) == UsersFrom(us, 1)

FanState(kind) ==
    CASE kind = "broadcast" -> "waiting_broadcast_message"
      [] kind = "poll" -> "waiting_options"

FanTexts(kind) ==
    CASE kind = "broadcast" -> {<<"A">>}
      [] kind = "poll" -> {<<"A", "\n", "B">>}

(* process_broadcast up to its loop: users = await db.get_all_users().     *)
(* process_poll_options up to its loop: create_poll, state.clear(),        *)
(* get_all_users.  attempted and failed_at are history: the recipients     *)
(* tried so far and the position of the first failure (0: none so far).    *)
FanStart(u, kind, text) ==
    /\ BagCardinality(commit_tasks) < MaxInFlight
    /\ fsm_state[u] = FanState(kind)
    /\ is_admin(u)
    /\ IF kind = "poll"
       THEN LET c == clear(fsm_state, fsm_data, u)
            IN  /\ polls' = create_poll(polls,
                                get_data(fsm_data, u)["poll_question"],
                                ParseOptions(text))
                /\ fsm_state' = c.state
                /\ fsm_data' = c.data
       ELSE UNCHANGED <<polls, fsm_state, fsm_data>>
    /\ commit_tasks' = commit_tasks (+) One(
           [user_id |-> u, kind |-> kind, pc |-> "loop",
            poll_id |-> IF kind = "poll" THEN Cardinality(DOMAIN polls) + 1
                        ELSE 0,
            recipients |-> get_all_users(users), i |-> 1,
            success_count |-> 0, failed_count |-> 0,
            attempted |-> <<>>, failed_at |-> 0])
    /\ UNCHANGED <<form_log, poll_votes, vote_tasks, bookVars, ADMIN_IDS,
                   users, now>>

(* Mutant: the first failed delivery ends the loop. *)
AfterDelivery_Abort(t, ok) ==
    [t EXCEPT !.i = IF ok THEN @ + 1 ELSE Len(t.recipients) + 1,
              !.success_count = IF ok THEN @ + 1 ELSE @,
              !.failed_count = IF ok THEN @ ELSE @ + 1,
              !.attempted = Append(@, t.recipients[t.i]),
              !.failed_at = IF ~ok /\ @ = 0 THEN t.i ELSE @]

(* One turn of "for user in users: try: await send; success_count += 1;    *)
(* except Exception: failed_count += 1".                                   *)
AfterDelivery(t, ok) ==
    [t EXCEPT !.i = @ + 1,
              !.success_count = IF ok THEN @ + 1 ELSE @,
              !.failed_count = IF ok THEN @ ELSE @ + 1,
              !.attempted = Append(@, t.recipients[t.i]),
              !.failed_at = IF ~ok /\ @ = 0 THEN t.i ELSE @]

Deliver(t, ok) ==
    /\ t.pc = "loop"
    /\ t.i <= Len(t.recipients)
    /\ commit_tasks' = (commit_tasks (-) One(t)) (+) One(AfterDelivery(t, ok))
    /\ UNCHANGED <<ADMIN_IDS, users, now, bookVars, pollVars, formVars>>

(* After the loop: process_broadcast calls state.clear(); both handlers    *)
(* report the two counts.                                                  *)
FanEnd(t) ==
    /\ t.pc = "loop"
    /\ t.i > Len(t.recipients)
    /\ IF t.kind = "broadcast"
       THEN LET c == clear(fsm_state, fsm_data, t.user_id)
            IN  /\ fsm_state' = c.state
                /\ fsm_data' = c.data
       ELSE UNCHANGED <<fsm_state, fsm_data>>
    /\ commit_tasks' = (commit_tasks (-) One(t)) (+) One(
                           [t EXCEPT !.pc = "done"])
    /\ UNCHANGED <<form_log, ADMIN_IDS, users, now, bookVars, pollVars>>

(* The users of the first two actors are registered; administrator 1 is in *)
(* the broadcast form, or at the last step of the poll form.               *)
FanInit ==
    /\ activities = <<>>
    /\ bookings = [p \in Actors \X ActivityIds |-> 0]
    /\ tasks = EmptyBag
    /\ hist = <<>>
    /\ PollInit
    /\ ADMIN_IDS = {1}
    /\ users = add_user(add_user(NoUsers, 1, "ann", "Ann", "None", TRUE, 0),
                        2, "None", "Anna", "Lee", FALSE, 0)
    /\ now = 0
    /\ commit_tasks = EmptyBag
    /\ \E kind \in {"broadcast", "poll"} :
          LET typed == IF kind = "poll" THEN <<<<"Q">>>> ELSE <<>>
          IN  /\ fsm_state = [u \in Actors |->
                      IF u = 1 THEN FanState(kind) ELSE "None"]
              /\ fsm_data = [u \in Actors |->
                      IF u = 1 /\ kind = "poll"
                      THEN ("poll_question" :> typed[1]) ELSE NoData]
              /\ form_log =
                    [started |-> [u \in Actors |->
                                    IF u = 1 THEN kind ELSE "none"],
                     typed |-> [u \in Actors |->
                                    IF u = 1 THEN typed ELSE <<>>],
                     answer |-> IF kind = "poll" THEN "Accepted"
                                ELSE "Started"]

FanNext ==
    \/ \E u \in Actors, kind \in {"broadcast", "poll"} :
          \E text \in FanTexts(kind) : FanStart(u, kind, text)
    \/ \E t \in CommitsInFlight, ok \in BOOLEAN : Deliver(t, ok)
    \/ \E t \in CommitsInFlight : FanEnd(t)
    \/ \E t \in CommitsInFlight : CommitDone(t)
    \/ \E u \in Actors \ DOMAIN users, profile \in Profiles :
          cmd_start(u, profile)

FanSpec == FanInit /\ [][FanNext]_vars

---------------------------------------------------------------------------
(* The race test: distinct actors each issue one book_1 at once against    *)
(* the empty activity 1; nobody cancels; the answers are kept (gathered).  *)

RaceBook(u) ==
    /\ \A t \in InFlight : t.user_id # u
    /\ tasks' = tasks (+) One(NewTask(u, 1))
    /\ UNCHANGED <<activities, bookings, hist, pollVars, formVars, envVars>>

RaceNext ==
    \/ \E u \in Actors : RaceBook(u)
    \/ \E t \in InFlight : BookCapacity(t)
    \/ \E t \in InFlight : BookInsert(t)
    \/ \E t \in InFlight : BookIsBooked(t)

RaceInit ==
    /\ \E c \in 1..MaxCap : activities = (1 :> [max_capacity |-> c])
    /\ bookings = [p \in Actors \X ActivityIds |-> 0]
    /\ tasks = EmptyBag
    /\ hist = <<>>
    /\ PollInit
    /\ NoSessions

RaceSpec == RaceInit /\ [][RaceNext]_vars

Answered(outcome) ==
    {t \in InFlight : t.pc = "answer"
                      /\ BookOutcome(t.success, t.is_booked) = outcome}

RaceOver == \A t \in InFlight : t.pc = "answer"

---------------------------------------------------------------------------
(* Events handled one at a time (no two units of work overlap).  hist      *)
(* keeps the last three events on activity 1, the activity observed; the   *)
(* events on other ids are handled and not recorded.                       *)

IsObserved(a) == a = 1

Push(h, e) == IF Len(h) < 3 THEN Append(h, e) ELSE Append(Tail(h), e)

Event(kind, u, outcome) ==
    [kind |-> kind, user_id |-> u, outcome |-> outcome,
     count_before |-> get_booking_count(bookings, 1)]

Record(a, e) ==
    hist' = IF IsObserved(a) THEN Push(hist, e) ELSE hist

(* book_activity to completion: create_booking, then the answer. *)
SeqBook(u, a) ==
    /\ tasks = EmptyBag
    /\ LET r == create_booking(bookings, activities, u, a)
           outcome == BookOutcome(r.success,
                                  is_user_booked(r.bookings, u, a))
       IN  /\ bookings' = r.bookings
           /\ Record(a, Event("book", u, outcome))
    /\ UNCHANGED <<activities, tasks, pollVars, formVars, envVars>>

(* cancel_booking to completion. *)
SeqCancel(u, a) ==
    /\ tasks = EmptyBag
    /\ LET r == cancel_booking(bookings, u, a)
       IN  /\ bookings' = r.bookings
           /\ Record(a, Event("cancel", u, CancelOutcome(r.success)))
    /\ UNCHANGED <<activities, tasks, pollVars, formVars, envVars>>

(* The tables a run of the bot can leave behind: two activities, and for   *)
(* the observed one any set of bookings with one row per pair at most (the *)
(* runs of Spec reach every such set, the capacity ceiling                 *)
(* notwithstanding).                                                       *)
SeqInit ==
    /\ \E c \in 1..MaxCap :
          activities = (1 :> [max_capacity |-> c])
                       @@ (2 :> [max_capacity |-> 1])
    /\ \E S \in SUBSET (Actors \X {1}) :
          bookings = [p \in Actors \X ActivityIds |->
                          IF p \in S THEN 1 ELSE 0]
    /\ tasks = EmptyBag
    /\ hist = <<>>
    /\ PollInit
    /\ NoSessions

SeqNext ==
    \/ \E u \in Actors, a \in EventIds : SeqBook(u, a)
    \/ \E u \in Actors, a \in EventIds : SeqCancel(u, a)

SeqSpec == SeqInit /\ [][SeqNext]_vars

---------------------------------------------------------------------------
(* Calls of the store made one at a time on tables that start without      *)
(* bookings.  hist holds the last call only, with the value it returned.   *)

Call(kind, u, a, success) ==
    <<[kind |-> kind, user_id |-> u, activity_id |-> a,
       success |-> success]>>

(* await db.create_booking(user_id, activity_id) *)
SerialBook(u, a) ==
    /\ LET r == create_booking(bookings, activities, u, a)
       IN  /\ bookings' = r.bookings
           /\ hist' = Call("book", u, a, r.success)
    /\ UNCHANGED <<activities, tasks, pollVars, formVars, envVars>>

(* await db.cancel_booking(user_id, activity_id) *)
SerialCancel(u, a) ==
    /\ LET r == cancel_booking(bookings, u, a)
       IN  /\ bookings' = r.bookings
           /\ hist' = Call("cancel", u, a, r.success)
    /\ UNCHANGED <<activities, tasks, pollVars, formVars, envVars>>

SerialInit ==
    /\ \E c \in 1..MaxCap :
          activities = (1 :> [max_capacity |-> c])
                       @@ (2 :> [max_capacity |-> 1])
    /\ bookings = [p \in Actors \X ActivityIds |-> 0]
    /\ tasks = EmptyBag
    /\ hist = <<>>
    /\ PollInit
    /\ NoSessions

SerialNext ==
    \/ \E u \in Actors, a \in EventIds : SerialBook(u, a)
    \/ \E u \in Actors, a \in EventIds : SerialCancel(u, a)

SerialSpec == SerialInit /\ [][SerialNext]_vars

---------------------------------------------------------------------------
(* Properties *)

Last(h) == h[Len(h)]

Capacity(a) == activities[a].max_capacity

(* C1: in every reachable state, under any interleaving of book and cancel *)
(* events, the number of booking rows of an activity is at most its        *)
(* max_capacity.                                                           *)
C1_CapacityRespected ==
    \A a \in DOMAIN activities :
        get_booking_count(bookings, a) <= Capacity(a)

(* C2: race test.  When C+k distinct actors have each issued one book     *)
(* against the empty activity of capacity C and all have been answered,    *)
(* exactly C were answered Booked and exactly k CapacityFull.              *)
C2_RaceExactlyC ==
    (RaceOver /\ BagCardinality(tasks) >= Capacity(1)) =>
        /\ Cardinality(Answered("Booked")) = Capacity(1)
        /\ Cardinality(Answered("CapacityFull"))
              = BagCardinality(tasks) - Capacity(1)

(* C3: in every reachable state there is at most one booking row per       *)
(* (actor, activity) pair, overlapping book events of one actor included.  *)
C3_OneBookingPerPair ==
    \A p \in DOMAIN bookings : bookings[p] <= 1

(* An overlapping book of the same actor has inserted the row while this   *)
(* unit of work, dispatched before it, is about to INSERT too.             *)
C3_DoubleTapWitness ==
    \E t \in InFlight :
        /\ t.pc = "insert"
        /\ ~t.held
        /\ bookings[<<t.user_id, t.activity_id>>] = 1

(* C5: a book by an actor who holds a booking of the activity (an earlier  *)
(* book succeeded, no cancel of the pair since) is answered AlreadyBooked, *)
(* never Booked nor CapacityFull, and the pair keeps its single row, also  *)
(* when the activity is at its capacity.                                   *)
C5_SecondBookAlreadyBooked ==
    \A t \in InFlight :
        (t.pc = "answer" /\ t.held) =>
            /\ BookOutcome(t.success, t.is_booked) = "AlreadyBooked"
            /\ bookings[<<t.user_id, t.activity_id>>] = 1

C5_FullActivityWitness ==
    \E t \in InFlight :
        /\ t.pc = "answer" /\ t.held
        /\ t.activity_id \in DOMAIN activities
        /\ get_booking_count(bookings, t.activity_id)
              >= Capacity(t.activity_id)

(* C6: cancel is idempotent.  A cancel by an actor without a booking of    *)
(* the activity answers false and changes no table; a cancel that follows  *)
(* a cancel of the same pair answers false, the first one having answered  *)
(* true exactly if the actor was booked; a cancel never touches a row of   *)
(* another actor or activity.                                              *)
C6_CancelStep ==
    IF hist' # hist
    THEN \* an event on the observed activity was handled
         LET e == Last(hist')
             u == e.user_id
         IN  e.kind = "cancel" =>
               /\ activities' = activities
               /\ \A p \in DOMAIN bookings :
                     bookings'[p] = IF p = <<u, 1>> THEN 0 ELSE bookings[p]
               /\ e.outcome = IF bookings[<<u, 1>>] > 0
                              THEN "Cancelled" ELSE "NothingToCancel"
               /\ bookings[<<u, 1>>] = 0 => bookings' = bookings
               /\ (/\ hist # <<>>
                   /\ Last(hist).kind = "cancel"
                   /\ Last(hist).user_id = u)
                     => e.outcome = "NothingToCancel"
    ELSE \* an event on another id (or one that repeats the last three)
         \A v \in Actors : bookings'[<<v, 1>>] = bookings[<<v, 1>>]

C6_CancelIdempotent == [][C6_CancelStep]_vars

C6_TrueThenFalseWitness ==
    /\ Len(hist) >= 2
    /\ LET e1 == hist[Len(hist) - 1]
           e2 == hist[Len(hist)]
       IN  /\ e1.kind = "cancel" /\ e2.kind = "cancel"
           /\ e1.user_id = e2.user_id
           /\ e1.outcome = "Cancelled" /\ e2.outcome = "NothingToCancel"
           /\ \E v \in Actors : v # e1.user_id /\ bookings[<<v, 1>>] = 1
           /\ bookings[<<e1.user_id, 2>>] = 1

(* C7: Book, Cancel, Book by one actor on one activity with no other event *)
(* on the activity in between, the first book answered Booked: the cancel  *)
(* answers true and leaves the activity's count at its value before the    *)
(* first book, the second book is answered Booked, and the pair then has   *)
(* exactly one row.                                                        *)
C7_Cycle(i) ==
    LET e1 == hist[i]
        e2 == hist[i + 1]
    IN  (/\ e1.kind = "book" /\ e1.outcome = "Booked"
         /\ e2.kind = "cancel" /\ e2.user_id = e1.user_id) =>
            /\ e2.outcome = "Cancelled"
            /\ IF i + 2 <= Len(hist)
               THEN LET e3 == hist[i + 2]
                    IN  /\ e3.count_before = e1.count_before
                        /\ (e3.kind = "book" /\ e3.user_id = e1.user_id) =>
                              /\ e3.outcome = "Booked"
                              /\ i + 2 = Len(hist) =>
                                    bookings[<<e1.user_id, 1>>] = 1
               ELSE get_booking_count(bookings, 1) = e1.count_before

C7_BookCancelBook ==
    \A i \in 1..(Len(hist) - 1) : C7_Cycle(i)

C7_CycleWitness ==
    /\ Len(hist) = 3
    /\ hist[1].kind = "book" /\ hist[1].outcome = "Booked"
    /\ hist[2].kind = "cancel" /\ hist[2].user_id = hist[1].user_id
    /\ hist[3].kind = "book" /\ hist[3].user_id = hist[1].user_id
    /\ hist[3].outcome = "Booked"
    /\ hist[1].count_before > 0

(* C8: slot release.  An actor is answered CapacityFull while the activity *)
(* holds exactly max_capacity bookings; then a booked actor's cancel       *)
(* completes; the rejected actor's next book, the next event on the        *)
(* activity, is answered Booked.                                           *)
C8_SlotRelease ==
    \A i \in 1..(Len(hist) - 2) :
        LET e1 == hist[i]
            e2 == hist[i + 1]
            e3 == hist[i + 2]
        IN  (/\ e1.kind = "book" /\ e1.outcome = "CapacityFull"
             /\ e1.count_before = Capacity(1)
             /\ e2.kind = "cancel" /\ e2.outcome = "Cancelled"
             /\ e3.kind = "book" /\ e3.user_id = e1.user_id)
                => e3.outcome = "Booked"

C8_ReleaseWitness ==
    /\ Len(hist) = 3
    /\ Capacity(1) = 2
    /\ hist[1].kind = "book" /\ hist[1].outcome = "CapacityFull"
    /\ hist[1].count_before = Capacity(1)
    /\ hist[2].kind = "cancel" /\ hist[2].outcome = "Cancelled"
    /\ hist[3].kind = "book" /\ hist[3].user_id = hist[1].user_id
    /\ hist[3].outcome = "Booked"

(* C9: a book naming an activity id without a row creates no booking row   *)
(* and is answered NotFound, an outcome other than CapacityFull and        *)
(* AlreadyBooked.                                                          *)
C9_UnknownActivityNotFound ==
    /\ \A p \in DOMAIN bookings :
          p[2] \notin DOMAIN activities => bookings[p] = 0
    /\ \A t \in InFlight :
          (t.pc = "answer" /\ t.activity_id \notin DOMAIN activities) =>
              BookOutcome(t.success, t.is_booked) = "NotFound"

(* C4: in every reachable state there is at most one vote row per          *)
(* (actor, poll) pair, whatever the interleaving of vote events and        *)
(* whether the poll is active or closed.                                   *)
C4_OneVotePerPair ==
    \A k \in DOMAIN poll_votes : Len(poll_votes[k]) <= 1

(* Two vote events of one actor in flight together on a closed poll: the   *)
(* first recorded and not yet answered, the second refused.                *)
C4_ClosedPollDoubleVoteWitness ==
    /\ 1 \in DOMAIN polls /\ ~polls[1].is_active
    /\ \E t1, t2 \in VotesInFlight :
          /\ t1.user_id = t2.user_id /\ t1.poll_id = 1 /\ t2.poll_id = 1
          /\ t1.pc = "get_poll"
          /\ t2.pc = "answer" /\ t2.outcome = "AlreadyVoted"
          /\ Len(poll_votes[<<1, t1.user_id>>]) = 1

(* C10: a vote whose option index lies outside [0, |options|) of an        *)
(* existing poll is answered InvalidOption and creates no vote row, so no  *)
(* stored vote of an existing poll carries such an index, and the answer   *)
(* vote_in_poll computes for such an index is InvalidOption.               *)
C10_InvalidOptionRejected ==
    /\ \A k \in DOMAIN poll_votes :
          k[1] \in DOMAIN polls =>
              \A j \in 1..Len(poll_votes[k]) :
                  /\ 0 <= poll_votes[k][j]
                  /\ poll_votes[k][j] < polls[k[1]].n_options
    /\ \A t \in VotesInFlight :
          (t.pc = "get_poll" /\ t.poll_id \in DOMAIN polls
             /\ ~(0 <= t.option_index
                  /\ t.option_index < polls[t.poll_id].n_options)) =>
              VoteOutcome(TRUE, get_poll(polls, t.poll_id), t.option_index)
                  = "InvalidOption"

(* C11: a vote naming a poll id that has no row is answered NotFound and   *)
(* creates no vote row; in every reachable state every vote row refers to  *)
(* an existing poll.                                                       *)
C11_VoteRowsReferToPolls ==
    /\ \A k \in DOMAIN poll_votes :
          Len(poll_votes[k]) > 0 => k[1] \in DOMAIN polls
    /\ \A t \in VotesInFlight :
          (t.pc = "answer" /\ t.poll_id \notin DOMAIN polls) =>
              t.outcome = "NotFound"

(* C12: once an actor's vote on a poll is recorded, every later vote       *)
(* attempt of that actor on that poll is answered AlreadyVoted and leaves  *)
(* the tally and the recorded option unchanged.                            *)
C12_RevoteStep ==
    /\ \A k \in DOMAIN poll_votes :
          Len(poll_votes[k]) > 0 => poll_votes'[k] = poll_votes[k]
    /\ \A t \in BagToSet(vote_tasks') :
          t.had_row =>
              /\ t.pc = "answer" /\ t.outcome = "AlreadyVoted"
              /\ CopiesIn(t, vote_tasks') > CopiesIn(t, vote_tasks) =>
                    \/ poll_votes' = poll_votes
                    \/ get_poll_results(poll_votes', t.poll_id)
                          = get_poll_results(poll_votes, t.poll_id)

C12_RevoteAlreadyVoted == [][C12_RevoteStep]_vars

(* The spec's example: the actor's vote for index 1 is the only row, and   *)
(* a second attempt of that actor has been refused.                        *)
C12_RevoteWitness ==
    /\ 1 \in DOMAIN polls
    /\ get_poll_results(poll_votes, 1) = (1 :> 1)
    /\ \E t \in VotesInFlight :
          /\ t.poll_id = 1 /\ t.outcome = "AlreadyVoted"
          /\ poll_votes[<<1, t.user_id>>] = <<1>>

(* The count a result dict reports for option index i. *)
Tally(r, i) == IF i \in DOMAIN r THEN r[i] ELSE 0

(* C13: for every poll the counts of get_poll_results sum to the number of *)
(* vote rows of the poll, in the initial state and after every step that   *)
(* changes the vote rows, and each recorded vote raises exactly one        *)
(* option's count by one.                                                  *)
C13_TallySums(pv) ==
    \A p \in PollIds :
        LET r == get_poll_results(pv, p)
        IN  SumOver(r, DOMAIN r) = VoteRowCount(pv, p)

C13_TallyStep ==
    \/ poll_votes' = poll_votes
    \/ \A p \in PollIds :
          LET before == get_poll_results(poll_votes, p)
              after == get_poll_results(poll_votes', p)
              rows == VoteRowCount(poll_votes', p)
          IN  /\ SumOver(after, DOMAIN after) = rows
              /\ rows # VoteRowCount(poll_votes, p) =>
                    \E i \in DOMAIN after :
                        /\ after[i] = Tally(before, i) + 1
                        /\ \A j \in (DOMAIN after) \ {i} :
                              after[j] = Tally(before, j)

C13_TallySumsToRows == C13_TallySums(poll_votes) /\ [][C13_TallyStep]_vars

(* Two actors have voted for the same option of the poll. *)
C13_SharedOptionWitness ==
    \E i \in 0..(NOptions - 1) :
        /\ 1 \in DOMAIN polls
        /\ Tally(get_poll_results(poll_votes, 1), i) = 2
        /\ VoteRowCount(poll_votes, 1) >= 2

---------------------------------------------------------------------------
(* Properties of the forms.                                                *)

(* The chains of section 4.4: the states of each form kind, in order. *)
Chain(kind) ==
    CASE kind = "broadcast" -> <<"waiting_broadcast_message">>
      [] kind = "activity" ->
            <<"waiting_activity_name", "waiting_activity_description",
              "waiting_activity_datetime", "waiting_activity_capacity">>
      [] kind = "poll" -> <<"waiting_question", "waiting_options">>

StepAfter(state) ==
    {Chain(kind)[j + 1] : <<kind, j>> \in
        {x \in FormKinds \X (1..3) :
            x[2] < Len(Chain(x[1])) /\ Chain(x[1])[x[2]] = state}}

FirstSteps == {Chain(kind)[1] : kind \in FormKinds}

(* The capacity a capacity text asks for (0: the text asks for none). *)
CapacityMeant(text) ==
    CASE text = <<"-">> -> MAX_BOOKING_CAPACITY
      [] text = <<"2">> -> 2
      [] OTHER -> 0

(* C14: after an admin's start of the activity form and three texts the    *)
(* session is at the capacity step holding name, description and datetime; *)
(* an activity is created only by the fourth, valid text, it is exactly    *)
(* one activity made of the four texts, and the actor then has no session. *)
(* A session state changes only to the next step of its chain, to none, or *)
(* to a chain's first step.                                                *)
C14_ChainStep ==
    /\ \A u \in Actors :
          /\ (form_log'.started[u] = "activity"
                 /\ Len(form_log'.typed[u]) = 3) =>
                /\ fsm_state'[u] = "waiting_activity_capacity"
                /\ fsm_data'[u]["activity_name"] = form_log'.typed[u][1]
                /\ fsm_data'[u]["activity_description"]
                      = form_log'.typed[u][2]
                /\ fsm_data'[u]["activity_datetime"] = form_log'.typed[u][3]
          /\ fsm_state'[u] # fsm_state[u] =>
                fsm_state'[u] \in
                    {"None"} \cup FirstSteps \cup StepAfter(fsm_state[u])
    /\ activities' # activities =>
          \E u \in Actors :
              LET t == form_log'.typed[u]
              IN  /\ form_log'.started[u] = "activity"
                  /\ Len(form_log.typed[u]) = 3 /\ Len(t) = 4
                  /\ fsm_state[u] = "waiting_activity_capacity"
                  /\ fsm_state'[u] = "None"
                  /\ fsm_data'[u] = NoData
                  /\ activities' = activities @@
                        ((Cardinality(DOMAIN activities) + 1) :>
                            [name |-> t[1], description |-> t[2],
                             date_time |-> t[3],
                             max_capacity |-> CapacityMeant(t[4])])

C14_ActivityChain == [][C14_ChainStep]_vars

(* The activity form has run to its end: name B, capacity 2. *)
C14_CommittedWitness ==
    /\ DOMAIN activities = {1}
    /\ activities[1] = [name |-> <<"B">>, description |-> <<"D">>,
                        date_time |-> <<"T">>, max_capacity |-> 2]
    /\ form_log.typed[1] = <<<<"B">>, <<"D">>, <<"T">>, <<"2">>>>
    /\ fsm_state[1] = "None"
    /\ form_log.answer = "Committed"

(* Capacity texts that are neither "-" nor a positive integer, and option  *)
(* lists with fewer than 2 or more than 10 non-empty lines.                *)
BadCapacityTexts == {<<"a", "b", "c">>, <<"0">>, <<"-", "3">>}

BadOptionTexts == {<<"A", "\n", " ", "\n">>, Lines(11)}

(* C15: a capacity text that is neither "-" nor a positive integer, or an  *)
(* option list with fewer than 2 or more than 10 non-empty lines, is       *)
(* answered as invalid and leaves the session at the same step with its    *)
(* fields unchanged and no activity or poll created, so the step can be    *)
(* repeated from the same state.                                           *)
C15_InvalidStep ==
    \A u \in ADMIN_IDS :
        /\ \A text \in BadCapacityTexts :
              (fsm_state[u] = "waiting_activity_capacity"
                  /\ process_activity_capacity(u, text)) =>
                    /\ form_log'.answer = "Invalid"
                    /\ UNCHANGED <<fsm_state, fsm_data, activities, polls>>
        /\ \A text \in BadOptionTexts :
              (fsm_state[u] = "waiting_options"
                  /\ process_poll_options(u, text)) =>
                    /\ form_log'.answer = "Invalid"
                    /\ UNCHANGED <<fsm_state, fsm_data, activities, polls>>
        /\ form_log'.answer = "Invalid" =>
              UNCHANGED <<fsm_state, fsm_data, activities, polls>>

C15_ValidationKeepsSession == [][C15_InvalidStep]_vars

(* A refused capacity text: the session is still at the capacity step     *)
(* with the three fields collected before.                                 *)
C15_RefusedCapacityWitness ==
    /\ form_log.answer = "Invalid"
    /\ fsm_state[1] = "waiting_activity_capacity"
    /\ DOMAIN fsm_data[1] =
          {"activity_name", "activity_description", "activity_datetime"}
    /\ Len(form_log.typed[1]) = 3
    /\ DOMAIN activities = {}

(* C16: for an administrator in any form state or with no session, the     *)
(* cancel button (callback data cancel_operation, routed as main           *)
(* registers the routers) leaves the actor with no session: state none,    *)
(* fields discarded.                                                       *)
C16_CancelStep ==
    \A u \in ADMIN_IDS :
        CancelOperation(u) =>
            fsm_state'[u] = "None" /\ fsm_data'[u] = NoData

C16_CancelClearsSession == [][C16_CancelStep]_vars

(* C17: navigating back to the admin home screen (callback data            *)
(* back_to_admin) does to the session what the cancel action is specified  *)
(* to do, in every state, the poll-creation states included: afterwards    *)
(* the administrator has no session.                                       *)
C17_BackStep ==
    \A u \in ADMIN_IDS :
        BackToAdmin(u) =>
            fsm_state'[u] = "None" /\ fsm_data'[u] = NoData

C17_BackClearsSession == [][C17_BackStep]_vars

(* C18: a start by an actor outside the admin allow-list is answered       *)
(* PermissionDenied for every form kind, creates no session and changes    *)
(* no state; no such actor ever has a session.                             *)
C18_DeniedStep ==
    \A u \in Actors \ ADMIN_IDS :
        /\ fsm_state'[u] = "None" /\ fsm_data'[u] = NoData
        /\ \A kind \in FormKinds :
              StartForm(u, kind) =>
                  /\ form_log'.answer = "PermissionDenied"
                  /\ UNCHANGED <<fsm_state, fsm_data, activities, bookings,
                                 polls, poll_votes>>

C18_StartNeedsAdmin == [][C18_DeniedStep]_vars

(* A start has just been refused while the administrator is in the middle  *)
(* of the activity form.                                                   *)
C18_DeniedWitness ==
    /\ form_log.answer = "PermissionDenied"
    /\ fsm_state[1] = "waiting_activity_description"
    /\ \A u \in Actors \ ADMIN_IDS : fsm_state[u] = "None"

(* C19: immediately after an administrator's start of any form kind the    *)
(* session's field mapping is empty: the fields of a previously abandoned  *)
(* session of the actor are discarded.                                     *)
C19_StartStep ==
    \A u \in ADMIN_IDS, kind \in FormKinds :
        StartForm(u, kind) => fsm_data'[u] = NoData

C19_StartDiscardsFields == [][C19_StartStep]_vars

(* C20: from whatever state, after an administrator's start(kind) the      *)
(* session is at the first step of kind's chain; later texts advance along *)
(* that chain only, and a row is committed only by the form started last.  *)
C20_StartStep ==
    /\ \A u \in ADMIN_IDS :
          /\ \A kind \in FormKinds :
                StartForm(u, kind) => fsm_state'[u] = Chain(kind)[1]
          /\ fsm_state'[u] # "None" =>
                /\ form_log'.started[u] \in FormKinds
                /\ Len(form_log'.typed[u])
                      < Len(Chain(form_log'.started[u]))
                /\ fsm_state'[u] =
                      Chain(form_log'.started[u])[Len(form_log'.typed[u]) + 1]
    /\ activities' # activities =>
          \E u \in ADMIN_IDS :
              form_log.started[u] = "activity" /\ Len(form_log'.typed[u]) = 4
    /\ polls' # polls =>
          \E u \in ADMIN_IDS :
              /\ form_log.started[u] = "poll" /\ Len(form_log'.typed[u]) = 2
              /\ polls'[Cardinality(DOMAIN polls')].question
                    = form_log'.typed[u][1]

C20_LastStartWins == [][C20_StartStep]_vars

(* The activity form was abandoned after its name and the poll form       *)
(* started: the session is on the poll chain, one text into it.            *)
C20_AbandonedWitness ==
    /\ form_log.started[1] = "poll"
    /\ fsm_state[1] = "waiting_options"
    /\ "activity_name" \in DOMAIN fsm_data[1]
    /\ "activity_description" \notin DOMAIN fsm_data[1]
    /\ form_log.typed[1] = <<fsm_data[1]["poll_question"]>>
    /\ DOMAIN activities = {}

---------------------------------------------------------------------------
(* Properties of poll closure and poll results.                            *)

(* C24: closing a poll changes only its is_active flag, to false: the vote *)
(* rows and the tally are the same after as before, the poll row is still  *)
(* there to be read (results stay queryable), closing a closed poll        *)
(* changes nothing (a step that changes the polls table closes a poll that *)
(* was active), and a closed poll never becomes active again.              *)
C24_CloseStep ==
    \/ polls' = polls
    \/ /\ \A p \in DOMAIN polls :
             /\ p \in DOMAIN polls'
             /\ ~polls[p].is_active => ~polls'[p].is_active
       /\ \A u \in ADMIN_IDS, p \in PollIds :
             ClosePoll(u, p) =>
                 /\ poll_votes' = poll_votes
                 /\ get_poll_results(poll_votes', p)
                       = get_poll_results(poll_votes, p)
                 /\ DOMAIN polls' = DOMAIN polls
                 /\ \A q \in DOMAIN polls :
                       polls'[q] = IF q = p
                                   THEN [polls[q] EXCEPT !.is_active = FALSE]
                                   ELSE polls[q]
                 /\ get_poll(polls', p).found = get_poll(polls, p).found
                 /\ p \in DOMAIN polls /\ polls[p].is_active

C24_CloseKeepsVotes == [][C24_CloseStep]_vars

(* The poll is closed and holds a vote for each of two options. *)
C24_ClosedWithVotesWitness ==
    /\ 1 \in DOMAIN polls /\ ~polls[1].is_active
    /\ get_poll_results(poll_votes, 1) = (0 :> 1) @@ (1 :> 1)
    /\ vote_tasks = EmptyBag

(* C25: the results of a poll without any vote are computed without a     *)
(* division by zero and report every option of the poll, in the original   *)
(* order, with 0 votes and 0%.                                             *)
C25_ZeroVotesAllOptions ==
    \A p \in DOMAIN polls :
        VoteRowCount(poll_votes, p) = 0 =>
            LET shown == show_poll_results(polls, poll_votes, p)
            IN  /\ shown.answer # "NotFound"
                /\ shown.rows =
                      [j \in 1..polls[p].n_options |->
                          [option |-> j - 1, votes |-> 0, percentage |-> 0]]

---------------------------------------------------------------------------
(* Properties of the rows the forms create.                                *)

(* The option list an option text asks for (empty: the text asks for no    *)
(* poll).                                                                  *)
OptionsMeant(text) ==
    CASE text = <<"A", "\n", "B">> -> <<<<"A">>, <<"B">>>>
      [] text = <<"B", "\n", " ", "A", " ", "\n", "\n", "C">> ->
            <<<<"B">>, <<"A">>, <<"C">>>>
      [] text = Lines(10) -> [j \in 1..10 |-> <<"A">>]
      [] OTHER -> <<>>

Trimmed(o) ==
    /\ Len(o) > 0
    /\ o[1] \notin Whitespace
    /\ o[Len(o)] \notin Whitespace

(* C26: every poll created through the poll form has between 2 and 10     *)
(* options, each non-empty and free of surrounding whitespace, and they    *)
(* are the non-empty lines of the administrator's option text in the order *)
(* of the text.                                                            *)
C26_PollStep ==
    /\ \A p \in DOMAIN polls' :
          /\ Len(polls'[p].options) >= 2
          /\ Len(polls'[p].options) <= 10
          /\ \A j \in 1..Len(polls'[p].options) :
                Trimmed(polls'[p].options[j])
    /\ polls' # polls =>
          \E u \in ADMIN_IDS :
              LET t == form_log'.typed[u]
                  p == Cardinality(DOMAIN polls')
              IN  /\ form_log'.typed[u] # form_log.typed[u]
                  /\ DOMAIN polls' = DOMAIN polls \cup {p}
                  /\ p \notin DOMAIN polls
                  /\ OptionsMeant(t[Len(t)]) # <<>>
                  /\ polls'[p].options = OptionsMeant(t[Len(t)])

C26_PollOptions == [][C26_PollStep]_vars

(* A poll made of the lines B, A, C of a text that holds an empty line and *)
(* a line with surrounding blanks.                                         *)
C26_OrderWitness ==
    /\ DOMAIN polls = {1}
    /\ polls[1].options = <<<<"B">>, <<"A">>, <<"C">>>>
    /\ form_log.typed[1][2]
          = <<"B", "\n", " ", "A", " ", "\n", "\n", "C">>

(* C27: every activity created through the form has max_capacity >= 1:    *)
(* the text "-" gives the default 50, a positive integer gives that        *)
(* integer, and no other capacity text creates an activity; an activity    *)
(* row never changes after its creation and is never deleted.              *)
C27_ActivityStep ==
    /\ \A a \in DOMAIN activities' : activities'[a].max_capacity >= 1
    /\ \A a \in DOMAIN activities :
          a \in DOMAIN activities' /\ activities'[a] = activities[a]
    /\ activities' # activities =>
          \E u \in ADMIN_IDS :
              LET t == form_log'.typed[u]
                  a == Cardinality(DOMAIN activities')
              IN  /\ form_log'.typed[u] # form_log.typed[u]
                  /\ DOMAIN activities' = DOMAIN activities \cup {a}
                  /\ a \notin DOMAIN activities
                  /\ t[Len(t)] \in {<<"-">>, <<"2">>}
                  /\ t[Len(t)] = <<"-">> =>
                        activities'[a].max_capacity = MAX_BOOKING_CAPACITY
                  /\ t[Len(t)] = <<"2">> =>
                        activities'[a].max_capacity = 2

C27_ActivityCapacity == [][C27_ActivityStep]_vars

(* The activity created with the text "-": the default capacity; the      *)
(* administrator has started a form again since.                           *)
C27_DefaultCapacityWitness ==
    /\ DOMAIN activities = {1}
    /\ activities[1].max_capacity = MAX_BOOKING_CAPACITY
    /\ fsm_state[1] = "waiting_activity_capacity"
    /\ form_log.answer = "Invalid"

---------------------------------------------------------------------------
(* Properties of the users table and of the export.                        *)

(* C28: add_user is an idempotent insert-or-update.  A /start stores the   *)
(* sender's handle, names and admin flag over whatever the row held, keeps *)
(* one row per user id, removes no row, touches no row of another user and *)
(* no other table; and a /start whose arguments equal those of the row     *)
(* stored before leaves the same row as the first call did.                *)
C28_UpsertStep ==
    \A u \in Actors, profile \in Profiles :
        cmd_start(u, profile) =>
            /\ DOMAIN users' = DOMAIN users \cup {u}
            /\ \A v \in DOMAIN users : v # u => users'[v] = users[v]
            /\ users'[u].username = profile.username
            /\ users'[u].first_name = profile.first_name
            /\ users'[u].last_name = profile.last_name
            /\ users'[u].is_admin = (u \in ADMIN_IDS)
            /\ UNCHANGED <<activities, bookings, polls, poll_votes>>
            /\ (/\ u \in DOMAIN users
                /\ users[u].username = profile.username
                /\ users[u].first_name = profile.first_name
                /\ users[u].last_name = profile.last_name
                /\ users[u].is_admin = (u \in ADMIN_IDS))
                  => users'[u] = users[u]

C28_UpsertIdempotent == [][C28_UpsertStep]_vars

(* C29: the export of an activity (and the participant list) has exactly   *)
(* one row per booking row of the activity, numbered 1..n, so n equals     *)
(* get_booking_count, whoever the booking actors are.                      *)
C29_ExportCoversBookings ==
    \A u \in ADMIN_IDS, a \in DOMAIN activities :
        LET exported == export_bookings(u, bookings, users, a)
        IN  /\ exported.answer = "Exported"
            /\ Len(exported.rows) = get_booking_count(bookings, a)
            /\ \A j \in 1..Len(exported.rows) :
                  /\ exported.rows[j].ordinal = j
                  /\ bookings[<<exported.rows[j].user_id, a>>] = 1
            /\ \A v \in Actors :
                  bookings[<<v, a>>] > 0 =>
                      \E j \in 1..Len(exported.rows) :
                          exported.rows[j].user_id = v

---------------------------------------------------------------------------
(* Properties of the privileged operations.                                *)

(* An event of actor u, whatever it is: a start, a text in the actor's     *)
(* state, cancel, back, a close of a poll.                                 *)
EventOf(u) ==
    \/ \E kind \in FormKinds : StartForm(u, kind)
    \/ \E text \in TextsFor(fsm_state[u]) :
          \/ process_broadcast(u, text)
          \/ process_activity_name(u, text)
          \/ process_activity_description(u, text)
          \/ process_activity_datetime(u, text)
          \/ process_activity_capacity(u, text)
          \/ process_poll_question(u, text)
          \/ process_poll_options(u, text)
          \/ UnhandledText(u, text)
    \/ CancelOperation(u)
    \/ BackToAdmin(u)
    \/ \E p \in PollIds : ClosePoll(u, p)

(* C23: privileged operations are admin-only.  A step that changes the     *)
(* activities table, the polls table or a poll's is_active flag, or that   *)
(* sends a broadcast or a poll to the users, is no event of an actor       *)
(* outside ADMIN_IDS: it is the final step of an administrator's form or   *)
(* an administrator's closing of a poll; and no actor outside ADMIN_IDS is *)
(* given an export.                                                        *)
C23_PrivilegedStep ==
    /\ \A u \in Actors \ ADMIN_IDS, a \in DOMAIN activities' :
          export_bookings(u, bookings', users', a).answer
              = "PermissionDenied"
    /\ activities' # activities =>
          /\ \A u \in Actors \ ADMIN_IDS : ~EventOf(u)
          /\ \E u \in ADMIN_IDS, text \in CapacityTexts :
                process_activity_capacity(u, text)
    /\ polls' # polls =>
          /\ \A u \in Actors \ ADMIN_IDS : ~EventOf(u)
          /\ \E u \in ADMIN_IDS :
                \/ \E text \in OptionTexts : process_poll_options(u, text)
                \/ \E p \in PollIds : ClosePoll(u, p)
    /\ (form_log' # form_log /\ form_log'.answer = "Committed") =>
          /\ \A u \in Actors \ ADMIN_IDS : ~EventOf(u)
          /\ \E u \in ADMIN_IDS : form_log'.typed[u] # form_log.typed[u]

C23_AdminOnly == [][C23_PrivilegedStep]_vars

(* The administrator has created a poll and closed it, and an actor        *)
(* outside ADMIN_IDS has just been refused the start of a form.            *)
C23_RefusedAfterCloseWitness ==
    /\ 1 \in DOMAIN polls /\ ~polls[1].is_active
    /\ form_log.answer = "PermissionDenied"
    /\ \A u \in Actors \ ADMIN_IDS : fsm_state[u] = "None"

---------------------------------------------------------------------------
(* Properties of session isolation.                                        *)

(* An event of actor u in IsoSpec, whatever it is. *)
IsoEventOf(u) ==
    \/ \E kind \in FormKinds : StartForm(u, kind)
    \/ \E text \in OwnTextsFor(u, fsm_state[u]) :
          \/ process_activity_name(u, text)
          \/ process_activity_description(u, text)
          \/ process_activity_datetime(u, text)
          \/ process_activity_capacity(u, text)
          \/ process_poll_question(u, text)
          \/ process_poll_options(u, text)
          \/ UnhandledText(u, text)
    \/ CancelOperation(u)
    \/ BackToAdmin(u)
    \/ \E a \in DOMAIN activities : BookNow(u, a)
    \/ \E p \in PollIds \cap DOMAIN polls : VoteNow(u, p, 0)

(* C21: session isolation.  A step that changes the session state or the   *)
(* collected fields of an actor is no event of another actor, whatever the *)
(* interleaving (two administrators fill forms at once, the others start,  *)
(* type, cancel, go back, book and vote); and an activity or a poll that   *)
(* is created holds only the texts of the administrator whose final step   *)
(* created it.                                                             *)
C21_IsolationStep ==
    /\ \A u \in Actors :
          (fsm_state'[u] # fsm_state[u] \/ fsm_data'[u] # fsm_data[u]) =>
              \A v \in Actors \ {u} : ~IsoEventOf(v)
    /\ activities' # activities =>
          \E u \in ADMIN_IDS :
              LET row == activities'[Cardinality(DOMAIN activities')]
              IN  /\ form_log'.typed[u] # form_log.typed[u]
                  /\ row.name = OwnText(u)
                  /\ row.description = OwnText(u)
                  /\ row.date_time = OwnText(u)
    /\ polls' # polls =>
          \E u \in ADMIN_IDS :
              LET row == polls'[Cardinality(DOMAIN polls')]
              IN  /\ form_log'.typed[u] # form_log.typed[u]
                  /\ row.question = OwnText(u)
                  /\ row.options = OptionsMeant(OwnOptions(u))

C21_SessionIsolation == [][C21_IsolationStep]_vars

(* Administrator 2 has created an activity while administrator 1 was in    *)
(* the poll form, where administrator 1 still is, with the field typed     *)
(* before; the last actor has booked the activity since.                   *)
C21_TwoAdminsWitness ==
    /\ DOMAIN activities = {1}
    /\ activities[1].name = OwnText(2)
    /\ fsm_state[1] = "waiting_options"
    /\ fsm_data[1] = ("poll_question" :> OwnText(1))
    /\ fsm_state[2] = "None"
    /\ bookings[<<NActors, 1>>] = 1

---------------------------------------------------------------------------
(* Properties of the final step as a unit of work.                         *)

(* C22: a unit of work in which a store call failed with a storage error   *)
(* is not run again and has left the persisted state as it was: it has     *)
(* committed no row, also when it makes more than one store call (the poll *)
(* form: create_poll, then get_all_users).                                 *)
C22_FailureLeavesStoreUntouched ==
    \A t \in CommitsInFlight :
        t.outcome = "StorageError" => ~t.inserted

(* C30: one start of a form commits at most once.  After the single start  *)
(* that led to the last step, at most one activity or poll is created,     *)
(* also when two texts of the last step are handled by overlapping units   *)
(* of work.                                                                *)
C30_OneCommitPerSession ==
    Cardinality(DOMAIN activities) + Cardinality(DOMAIN polls) <= 1

---------------------------------------------------------------------------
(* Properties of the store and the forms under events handled one at a     *)
(* time.                                                                   *)

(* The condition under which a booking of activity a by actor u is to be   *)
(* made.                                                                   *)
MayBook(u, a) ==
    /\ a \in DOMAIN activities
    /\ get_booking_count(bookings, a) < activities[a].max_capacity
    /\ bookings[<<u, a>>] = 0

RowAdded(u, a) == [bookings EXCEPT ![<<u, a>>] = 1]

(* C31: a create_booking that overlaps no other write returns True and     *)
(* adds exactly one booking row if and only if the activity exists, its    *)
(* count is below max_capacity and the actor has no booking of it; in      *)
(* every other case it returns False and the bookings table is unchanged.  *)
(* Hence, calls being made one at a time, the count of an activity never   *)
(* exceeds its capacity.                                                   *)
C31_BookStep ==
    /\ hist'[1].kind = "book" =>
          LET u == hist'[1].user_id
              a == hist'[1].activity_id
          IN  /\ hist'[1].success = MayBook(u, a)
              /\ bookings' = IF MayBook(u, a) THEN RowAdded(u, a)
                             ELSE bookings
    /\ \A a \in DOMAIN activities :
          get_booking_count(bookings', a) <= Capacity(a)

C31_SequentialBooking == [][C31_BookStep]_vars

C31_FullThenRefusedWitness ==
    /\ Len(hist) = 1
    /\ hist[1].kind = "book" /\ ~hist[1].success
    /\ hist[1].activity_id = 1
    /\ bookings[<<hist[1].user_id, 1>>] = 0
    /\ get_booking_count(bookings, 1) = Capacity(1)

(* C32: in every reachable state every booking row refers to an activity  *)
(* of the activities table, so every booking counted by get_booking_count  *)
(* is a row of the booking actor's own list (get_user_bookings): the list  *)
(* of an actor, a selection of the actor's booking rows, has as many rows  *)
(* as the actor has bookings.                                              *)
C32_BookingsReferToActivities ==
    /\ \A p \in DOMAIN bookings :
          bookings[p] > 0 => p[2] \in DOMAIN activities
    /\ \A u \in Actors :
          Len(get_user_bookings(bookings, activities, u)) =
             Len(BookingsFrom(bookings, u, 1))

C32_UnknownIdRefusedWitness ==
    /\ \E p \in DOMAIN bookings : bookings[p] > 0
    /\ \E t \in InFlight :
          /\ t.pc = "answer" /\ ~t.success
          /\ t.activity_id \notin DOMAIN activities

(* C33: no stale field reaches a commit.  When an activity or a poll is    *)
(* committed, every field of the row is the value the administrator has    *)
(* submitted for that step since the most recent start of the form,        *)
(* whatever fields an abandoned, restarted or other-kind form of the       *)
(* administrator has left in the session.                                  *)
C33_CommitStep ==
    /\ activities' = activities
       \/ \E u \in ADMIN_IDS :
             LET t == form_log'.typed[u]
                 row == activities'[Cardinality(DOMAIN activities')]
             IN  /\ form_log'.started[u] = "activity"
                 /\ Len(t) = 4 /\ Len(form_log.typed[u]) = 3
                 /\ row.name = t[1]
                 /\ row.description = t[2]
                 /\ row.date_time = t[3]
                 /\ row.max_capacity = CapacityMeant(t[4])
    /\ polls' = polls
       \/ \E u \in ADMIN_IDS :
             LET t == form_log'.typed[u]
                 row == polls'[Cardinality(DOMAIN polls')]
             IN  /\ form_log'.started[u] = "poll"
                 /\ Len(t) = 2 /\ Len(form_log.typed[u]) = 1
                 /\ row.question = t[1]
                 /\ row.options = OptionsMeant(t[2])

C33_NoStaleField == [][C33_CommitStep]_vars

(* The session held the name A of the abandoned activity form or the       *)
(* question Q of the abandoned poll form; the form was started again and   *)
(* the row committed carries the name B, or the question R.                *)
C33_RestartedCommitWitness ==
    /\ form_log.answer = "Committed"
    /\ \/ /\ DOMAIN activities = {1}
          /\ activities[1].name = <<"B">>
       \/ /\ DOMAIN polls = {1}
          /\ polls[1].question = <<"R">>

---------------------------------------------------------------------------
(* Properties of the navigation and of the sessions.                       *)

(* C34: an administrator's navigation to booking management or to the user *)
(* list, in any form state, destroys the administrator's session, state    *)
(* and fields, and commits nothing; the text that follows is not taken as  *)
(* form input.                                                             *)
C34_NavigationStep ==
    /\ \A u \in ADMIN_IDS :
          (show_admin_bookings(u) \/ show_users_list(u)) =>
              /\ fsm_state'[u] = "None"
              /\ fsm_data'[u] = NoData
              /\ form_log'.answer = "Navigated"
              /\ activities' = activities
              /\ polls' = polls
    /\ form_log.answer = "Navigated" =>
          /\ form_log'.answer \notin {"Accepted", "Committed", "Invalid"}
          /\ activities' = activities
          /\ polls' = polls

C34_NavigationClearsSession == [][C34_NavigationStep]_vars

(* The administrator has left the activity form after its third text. *)
C34_LeftFormWitness ==
    /\ form_log.answer = "Navigated"
    /\ form_log.started[1] = "activity"
    /\ Len(form_log.typed[1]) = 3
    /\ fsm_state[1] = "None"
    /\ fsm_data[1] = NoData
    /\ activities = <<>>

(* C35: in every reachable state every actor with a live form session is  *)
(* in the admin allow-list: no sequence of events gives a session to a     *)
(* non-administrator.  A step that creates an activity or a poll, or that  *)
(* broadcasts, is the text of an administrator who had a session: a text   *)
(* of an actor without a session does none of these.                       *)
C35_SessionStep ==
    /\ fsm_state' = fsm_state
       \/ \A u \in Actors : fsm_state'[u] # "None" => u \in ADMIN_IDS
    /\ (form_log' # form_log /\ form_log'.answer = "Committed")
       \/ activities' # activities \/ polls' # polls
          => \E u \in ADMIN_IDS :
                /\ fsm_state[u] # "None"
                /\ form_log'.typed[u] # form_log.typed[u]

C35_SessionsOfAdminsOnly ==
    /\ \A u \in Actors : fsm_state[u] # "None" => u \in ADMIN_IDS
    /\ [][C35_SessionStep]_vars

(* An actor outside the allow-list has just been refused a form while the  *)
(* administrator is in the poll form; the refused actor has no session.    *)
C35_RefusedActorWitness ==
    /\ form_log.answer = "PermissionDenied"
    /\ fsm_state[1] = "waiting_question"
    /\ \E u \in Actors \ ADMIN_IDS :
          fsm_state[u] = "None" /\ fsm_data[u] = NoData
    /\ polls = NoPolls

---------------------------------------------------------------------------
(* Properties of the results view and of the fan-out.                      *)

(* C36: in the results view of a poll with at least one vote, the counts   *)
(* shown for the poll's options sum to the total number of votes shown.    *)
C36_ShownCountsSumToTotal ==
    \A p \in DOMAIN polls :
        LET shown == show_poll_results(polls, poll_votes, p)
        IN  shown.answer = "Results" =>
                SumOver([j \in 1..Len(shown.rows) |-> shown.rows[j].votes],
                        1..Len(shown.rows)) = shown.total_votes

(* The handler a form state waits for. *)
StepHandler(state) ==
    CHOOSE name \in {message_handlers[j].name : j \in DOMAIN message_handlers} :
        \E j \in DOMAIN message_handlers :
            /\ message_handlers[j].name = name
            /\ message_handlers[j].filter = "state"
            /\ message_handlers[j].state = state

(* C37: an unrelated event of an administrator in a form (a booking, a     *)
(* cancellation, a vote, the results of a poll, the closing of a poll, the *)
(* /start command, a text equal to a menu label) leaves the                *)
(* administrator's session state and fields as they were, and the next     *)
(* text of the form is handled by the handler of the same step.            *)
C37_UnrelatedStep ==
    \A u \in ADMIN_IDS :
        \/ /\ fsm_state'[u] = fsm_state[u]
           /\ fsm_data'[u] = fsm_data[u]
           /\ fsm_state[u] # "None" =>
                 \A text \in OwnTextsFor(u, fsm_state[u]) :
                     MessageRoute(text, fsm_state'[u])
                        = StepHandler(fsm_state[u])
        \/ /\ \A text \in MenuTexts : ~MessageEvent(u, text)
           /\ \A data \in UnrelatedData : ~CallbackEvent(u, data)

C37_UnrelatedEventsKeepSession == [][C37_UnrelatedStep]_vars

(* The administrator has typed the name and the description of an          *)
(* activity, then sent /start: the users row is there and the session      *)
(* waits for the date and time with both fields.                           *)
C37_StartInFormWitness ==
    /\ 1 \in DOMAIN users
    /\ fsm_state[1] = "waiting_activity_datetime"
    /\ DOMAIN fsm_data[1] = {"activity_name", "activity_description"}
    /\ Len(form_log.typed[1]) = 2
    /\ form_log.answer = "Accepted"

(* C38: the fan-out of a broadcast and of a poll is best effort.  Delivery *)
(* is attempted exactly once for every user that get_all_users returned,   *)
(* in turn, whatever deliveries failed before; the two counts add up to    *)
(* the number of attempts and, at the end, to the number of those users;   *)
(* when the loop has ended the administrator has no session; the poll of a *)
(* poll fan-out stays in the polls table.                                  *)
C38_BestEffortFanOut ==
    \A t \in CommitsInFlight :
        /\ t.attempted = SubSeq(t.recipients, 1, t.i - 1)
        /\ \A j, k \in 1..Len(t.recipients) :
              t.recipients[j] = t.recipients[k] => j = k
        /\ t.success_count + t.failed_count = Len(t.attempted)
        /\ t.kind = "poll" => t.poll_id \in DOMAIN polls
        /\ t.pc = "done" =>
              /\ t.attempted = t.recipients
              /\ t.success_count + t.failed_count = Len(t.recipients)
              /\ fsm_state[t.user_id] = "None"
              /\ fsm_data[t.user_id] = NoData

(* The first delivery failed, a later one succeeded, and the loop has      *)
(* ended.                                                                  *)
C38_FailedFirstWitness ==
    \E t \in CommitsInFlight :
        /\ t.pc = "done"
        /\ t.failed_at = 1
        /\ t.success_count >= 1
        /\ Len(t.recipients) >= 2

====
